---- MODULE Spec2Model ----
(***************************************************************************)
(* A model of the chat pipeline of copilotos-bridge:                       *)
(*   - SimpleChatStrategy.process (apps/api/src/domain/chat_strategy.py),  *)
(*     one action per stretch of code between two suspension points        *)
(*     (the awaits on the document cache and on the inference client);     *)
(*   - ChatResponseBuilder (apps/api/src/domain/chat_response_builder.py), *)
(*     one action per method.                                              *)
(*                                                                         *)
(* Representation.                                                         *)
(*   - A Python dict is a function whose DOMAIN is the set of keys present.*)
(*     A JSON object is unordered, so two payloads are equal when they     *)
(*     have the same keys with the same values.                            *)
(*   - A document's text is represented by its number of characters; a     *)
(*     piece of document context is [doc, chars]: the first `chars`        *)
(*     characters of document `doc`.  The context string is the sequence   *)
(*     of its pieces and its length the sum of their chars.                *)
(*   - A response text is a sequence of tokens, "<script>" standing for    *)
(*     content the sanitizer removes.                                      *)
(*   - None is the string None where the value is otherwise a string and   *)
(*     the record NoneRec where it is otherwise a record or dict.          *)
(***************************************************************************)
EXTENDS Integers, Sequences, FiniteSets, TLC

VARIABLES
    env,              \* the process environment (os.getenv)
    context,          \* context[r]: the ChatContext of call r of process
    pc,               \* pc[r]: where call r of process stands
    strategy,         \* strategy[r]: the class of the strategy made for request r, or None
    frame,            \* frame[f]: the local variables of a call of process
    cache_queries,    \* cache_queries[r]: the calls of get_document_text_from_cache made by r
    inference_calls,  \* inference_calls[r]: the calls of process_with_saptiva made by r
    inference_result, \* inference_result[r]: what process_with_saptiva returned to r
    sanitizer_calls,  \* sanitizer_calls[r]: the texts r handed to sanitize_response_content
    raised,           \* raised[r]: the step whose exception left process, or None
    outcome,          \* outcome[r]: the ChatProcessingResult returned, or NoneRec
    builder,          \* the ChatResponseBuilder: its _data, _metadata and _headers
    calls,            \* the number of builder methods called so far
    call_limit,       \* the number of builder calls a behaviour makes at most
    last_call,        \* the builder method called last, or None
    call_log,         \* the builder calls made so far: [method, args] each
    returned,         \* the JSONResponse the builder returned last, or NoneRec
    h_request,        \* the request a handler of the history router serves
    h_pc,             \* where the handler stands
    h_locals,         \* its local variables
    h_calls,          \* the calls it made of the database and the history service
    h_error,          \* the exception a call of it raised: [at, text]
    h_response        \* its answer, or NoneRec

chat_vars == <<env, context, pc, strategy, frame, cache_queries, inference_calls,
               inference_result, sanitizer_calls, raised, outcome>>

builder_vars == <<builder, calls, call_limit, last_call, call_log, returned>>

history_vars == <<h_request, h_pc, h_locals, h_calls, h_error, h_response>>

vars == <<chat_vars, builder_vars, history_vars>>

(***************************************************************************)
(* Bounds of the model.                                                    *)
(***************************************************************************)
\* the longest document-id list of a request when one request runs
MaxIds == 4
\* the longest document-id list of a request when two requests interleave
ConcMaxIds == 1
\* the number of builder methods called on one builder
MaxCalls == 3
\* the number of builder methods called on a builder before two setters are
\* applied to it in both orders
MaxCallsBefore == 2
\* the largest limit and the largest offset a history request asks for
MaxLimit == 2
MaxOffset == 3

(***************************************************************************)
(* Values.                                                                 *)
(***************************************************************************)
None == "None"
NoneRec == [none |-> TRUE]
EmptyDict == <<>>

Min(a, b) == IF a <= b THEN a ELSE b

\* bool(x) of a dict or a list: it is not empty
Truthy(x) == DOMAIN x # {}

RECURSIVE SumChars(_)
SumChars(parts) ==
    IF parts = <<>> THEN 0 ELSE Head(parts).chars + SumChars(Tail(parts))

\* document_context = None
NoContext == [is_none |-> TRUE, parts |-> <<>>]

\* len(document_context)
ContextLen(c) == SumChars(c.parts)

(***************************************************************************)
(* The environment and the guardrails read from it.                        *)
(***************************************************************************)
MAX_CHARS_PER_DOC == 8000
DEFAULT_MAX_DOCS_PER_CHAT == 3
DEFAULT_MAX_TOTAL_DOC_CHARS == 16000

Unset == [set |-> FALSE, value |-> 0]
EnvValue(n) == [set |-> TRUE, value |-> n]

Environments ==
    [MAX_DOCS_PER_CHAT : {Unset, EnvValue(2)},
     MAX_TOTAL_DOC_CHARS : {Unset, EnvValue(10000)}]

\* int(os.getenv(name, default))
GetEnvInt(v, default) == IF v.set THEN v.value ELSE default

max_docs_per_chat(e) == GetEnvInt(e.MAX_DOCS_PER_CHAT, DEFAULT_MAX_DOCS_PER_CHAT)
max_total_doc_chars(e) == GetEnvInt(e.MAX_TOTAL_DOC_CHARS, DEFAULT_MAX_TOTAL_DOC_CHARS)

(***************************************************************************)
(* The documents of the store and what the cache holds of them.            *)
(***************************************************************************)
Users == {"u1", "u2"}
DocIds == {"d1", "d2", "d3", "d4", "d5"}

\* user_id: the owner (Document.user_id); chars: the length of the extracted
\* text; cached: whether the text is still in the cache (FALSE: expired)
StoredDocument(d) ==
    CASE d = "d1" -> [user_id |-> "u1", chars |-> 9000, cached |-> TRUE]
      [] d = "d2" -> [user_id |-> "u1", chars |-> 4000, cached |-> FALSE]
      [] d = "d3" -> [user_id |-> "u2", chars |-> 5000, cached |-> TRUE]
      [] d = "d4" -> [user_id |-> "u1", chars |-> 5000, cached |-> TRUE]
      [] OTHER    -> [user_id |-> "u1", chars |-> 3000, cached |-> TRUE]

\* DocumentService.get_document_text_from_cache: one (id, text, expiry_info)
\* per requested document the user owns, in request order; a document of
\* another user is left out.
RECURSIVE GetDocumentTextFromCache(_, _)
GetDocumentTextFromCache(document_ids, user_id) ==
    IF document_ids = <<>> THEN <<>>
    ELSE LET d == Head(document_ids)
             rest == GetDocumentTextFromCache(Tail(document_ids), user_id)
         IN IF StoredDocument(d).user_id = user_id
            THEN <<[id |-> d,
                    chars |-> StoredDocument(d).chars,
                    expired |-> ~StoredDocument(d).cached]>> \o rest
            ELSE rest

\* DocumentService.extract_content_for_rag_from_cache, one document at a time:
\* an expired document gives a warning; a text is cut to max_chars_per_doc and
\* then added if it fits the rest of max_total_chars, skipped with a warning
\* if not.
RECURSIVE ExtractFrom(_, _, _, _)
ExtractFrom(items, max_chars_per_doc, max_total_chars, acc) ==
    IF items = <<>> THEN acc
    ELSE LET e == Head(items)
             cut == Min(e.chars, max_chars_per_doc)
             next ==
                IF e.expired
                THEN [acc EXCEPT !.warnings =
                         Append(@, [doc |-> e.id, warning |-> "expired"])]
                ELSE IF acc.used_chars + cut > max_total_chars
                THEN [acc EXCEPT !.warnings =
                         Append(@, [doc |-> e.id, warning |-> "skipped - over budget"])]
                ELSE [acc EXCEPT !.parts = Append(@, [doc |-> e.id, chars |-> cut]),
                                 !.used_docs = @ + 1,
                                 !.used_chars = @ + cut]
         IN ExtractFrom(Tail(items), max_chars_per_doc, max_total_chars, next)

\* DocumentService.extract_content_for_rag_from_cache:
\* (context string or None, warnings, {used_docs, used_chars}); only the first
\* max_docs entries of doc_texts are looked at.
ExtractContentForRagFromCache(doc_texts, max_chars_per_doc, max_total_chars, max_docs) ==
    LET first == SubSeq(doc_texts, 1, Min(Len(doc_texts), max_docs))
        acc == ExtractFrom(first, max_chars_per_doc, max_total_chars,
                           [parts |-> <<>>, warnings |-> <<>>,
                            used_docs |-> 0, used_chars |-> 0])
    IN [document_context |->
            IF acc.parts = <<>> THEN NoContext
            ELSE [is_none |-> FALSE, parts |-> acc.parts],
        doc_warnings |-> acc.warnings,
        context_metadata |->
            [used_docs |-> acc.used_docs, used_chars |-> acc.used_chars]]

(***************************************************************************)
(* The inference client and the sanitizer.                                 *)
(***************************************************************************)
Hello == <<"hola">>
Unsafe == <<"hola", "<script>">>

\* sanitize_response_content: the text without its unsafe content
Sanitize(text) == SelectSeq(text, LAMBDA t : t # "<script>")

\* a SaptivaResponse object with a choices attribute
WithChoices(cs) == [has_choices |-> TRUE, choices |-> cs]
\* a response object without a choices attribute
WithoutChoices == [has_choices |-> FALSE, choices |-> <<>>]
\* a choice carrying a message with a content
Choice(text) == [message |-> [content |-> text]]

\* What process_with_saptiva may return: dicts with some of the keys
\* response, decision, tokens, processing_time_ms, message_id.
InferenceResults ==
    { [response |-> WithChoices(<<Choice(Unsafe)>>),
       decision |-> [route |-> "chat"],
       tokens |-> [prompt |-> 10, completion |-> 5],
       processing_time_ms |-> 120,
       message_id |-> "m1"],
      [response |-> WithChoices(<<Choice(Hello), Choice(Unsafe)>>),
       decision |-> EmptyDict,
       tokens |-> [prompt |-> 7, completion |-> 0],
       processing_time_ms |-> 95,
       message_id |-> "m2"],
      [response |-> WithChoices(<<>>),
       decision |-> NoneRec,
       tokens |-> NoneRec,
       processing_time_ms |-> 80,
       message_id |-> "m3"],
      [response |-> WithoutChoices,
       decision |-> [route |-> "chat"],
       message_id |-> "m4"],
      [processing_time_ms |-> 60],
      [response |-> WithChoices(<<EmptyDict>>),
       decision |-> [route |-> "fallback"],
       message_id |-> "m5"] }

\* dict.get(key, default)
DictGet(d, key, default) == IF key \in DOMAIN d THEN d[key] ELSE default

\* x or default, x a dict or None
OrElse(x, default) == IF x = NoneRec \/ ~Truthy(x) THEN default ELSE x

(***************************************************************************)
(* The requests.                                                           *)
(***************************************************************************)
Slots == {1, 2}

\* the sequences of at most n different elements of S
SeqsUpTo(S, n) ==
    UNION { { s \in [1..k -> S] : \A i, j \in 1..k : i # j => s[i] # s[j] }
            : k \in 0..n }

\* ChatContext
Contexts(n) ==
    [user_id : Users,
     session_id : {None, "s1"},
     message : {"hi"},
     model : {"Saptiva Turbo", "Saptiva Cortex"},
     tools_enabled : BOOLEAN,
     document_ids : SeqsUpTo(DocIds, n)]

IdleContext ==
    [user_id |-> "u1", session_id |-> None, message |-> "hi",
     model |-> "Saptiva Turbo", tools_enabled |-> FALSE, document_ids |-> <<>>]

\* the documents two interleaved requests name
ConcDocIds == {"d1", "d2", "d3"}

ConcContexts(n) ==
    { c \in Contexts(n) :
        /\ \A i \in DOMAIN c.document_ids : c.document_ids[i] \in ConcDocIds
        /\ c.model = IdleContext.model
        /\ c.tools_enabled = IdleContext.tools_enabled }


(***************************************************************************)
(* ChatStrategyFactory and the strategies.  A strategy object is           *)
(* represented by the name of its class.                                   *)
(***************************************************************************)
\* a variant of create_strategy: a request with tools enabled is given the
\* coordinated strategy the module's header speaks of
create_strategy_by_tools(c, chat_service) ==
    IF c.tools_enabled THEN "CoordinatedChatStrategy" ELSE "SimpleChatStrategy"

\* ChatStrategyFactory.create_strategy(context, chat_service)
create_strategy(c, chat_service) == "SimpleChatStrategy"

\* strategy.get_strategy_name(): abstract (None) but for SimpleChatStrategy
get_strategy_name(s) == IF s = "SimpleChatStrategy" THEN "simple" ELSE None

(***************************************************************************)
(* SimpleChatStrategy.process, piece by piece.                             *)
(***************************************************************************)
\* a variant of Frame: the locals kept on the strategy object, one cell for
\* every call
SharedFrame(r) == 1

\* Each call of process has its own locals: Frame(r) is the cell holding the
\* locals of call r.
Frame(r) == r

\* document_context, doc_warnings, context_metadata as first assigned
InitialLocals ==
    [document_context |-> NoContext,
     doc_warnings |-> <<>>,
     context_metadata |-> [used_docs |-> 0, used_chars |-> 0]]

\* a variant of HasDocuments: the cache is asked whatever the request names
AlwaysHasDocuments(c) == TRUE

\* if context.document_ids:
HasDocuments(c) == c.document_ids # <<>>

\* a variant of ExtractLimits: the aggregate limit given as the per-document
\* limit too
ExtractLimitsNoPerDocCap(e) ==
    [max_chars_per_doc |-> max_total_doc_chars(e),
     max_total_chars |-> max_total_doc_chars(e),
     max_docs |-> max_docs_per_chat(e)]

\* a variant of ExtractLimits: MAX_DOCS_PER_CHAT of the environment ignored
ExtractLimitsDefaultDocs(e) ==
    [max_chars_per_doc |-> MAX_CHARS_PER_DOC,
     max_total_chars |-> max_total_doc_chars(e),
     max_docs |-> DEFAULT_MAX_DOCS_PER_CHAT]

\* the limits process hands to extract_content_for_rag_from_cache
ExtractLimits(e) ==
    [max_chars_per_doc |-> MAX_CHARS_PER_DOC,
     max_total_chars |-> max_total_doc_chars(e),
     max_docs |-> max_docs_per_chat(e)]

\* the locals after the cache lookup returned doc_texts
LocalsAfterLookup(doc_texts, e, locals) ==
    IF doc_texts # <<>>
    THEN LET lim == ExtractLimits(e)
         IN ExtractContentForRagFromCache(doc_texts, lim.max_chars_per_doc,
                                          lim.max_total_chars, lim.max_docs)
    ELSE locals

\* the arguments of chat_service.process_with_saptiva
InferenceCall(c, document_context) ==
    [message |-> c.message,
     model |-> c.model,
     user_id |-> c.user_id,
     chat_id |-> IF c.session_id = None THEN "" ELSE c.session_id,
     tools_enabled |-> c.tools_enabled,
     document_context |-> document_context]

\* a variant of ResponseContent: None, rendered as text, where the response
\* has no choice
ResponseContentNoneDefault(coordinated_response) ==
    LET response_obj == DictGet(coordinated_response, "response", NoneRec)
    IN IF response_obj # NoneRec /\ response_obj.has_choices
          /\ Len(response_obj.choices) > 0
       THEN DictGet(DictGet(response_obj.choices[1], "message", EmptyDict),
                    "content", <<>>)
       ELSE <<"None">>

\* response_content, from coordinated_response
ResponseContent(coordinated_response) ==
    LET response_obj == DictGet(coordinated_response, "response", NoneRec)
    IN IF response_obj # NoneRec /\ response_obj.has_choices
          /\ Len(response_obj.choices) > 0
       THEN DictGet(DictGet(response_obj.choices[1], "message", EmptyDict),
                    "content", <<>>)
       ELSE <<>>

\* a variant of DecisionMetadata: the warning list recorded even when empty
DecisionMetadataWarningsAlways(coordinated_response, doc_warnings, context_metadata) ==
    LET decision == OrElse(DictGet(coordinated_response, "decision", NoneRec), EmptyDict)
        with_warnings ==
            [k \in DOMAIN decision \cup {"document_warnings"} |->
                IF k = "document_warnings" THEN doc_warnings ELSE decision[k]]
    IN IF Truthy(context_metadata)
       THEN [k \in DOMAIN with_warnings \cup {"context_stats"} |->
                IF k = "context_stats" THEN context_metadata ELSE with_warnings[k]]
       ELSE with_warnings

\* decision_metadata: the inference decision with the document outcome added
\* (the code adds the two keys to the decision dict of coordinated_response
\* itself; process_with_saptiva hands each call a dict of its own)
DecisionMetadata(coordinated_response, doc_warnings, context_metadata) ==
    LET decision == OrElse(DictGet(coordinated_response, "decision", NoneRec), EmptyDict)
        with_warnings ==
            IF doc_warnings # <<>>
            THEN [k \in DOMAIN decision \cup {"document_warnings"} |->
                     IF k = "document_warnings" THEN doc_warnings ELSE decision[k]]
            ELSE decision
    IN IF Truthy(context_metadata)
       THEN [k \in DOMAIN with_warnings \cup {"context_stats"} |->
                IF k = "context_stats" THEN context_metadata ELSE with_warnings[k]]
       ELSE with_warnings

\* (time.time() - start_time) * 1000, in thousandths of a millisecond: the
\* readings of the clock the model draws from
ElapsedTimes == {41235}

\* a variant of ProcessingResult: the sanitized text in both content fields
ProcessingResultSanitizedTwice(c, coordinated_response, locals, processing_time) ==
    LET response_content == ResponseContent(coordinated_response)
    IN [content |-> Sanitize(response_content),
        sanitized_content |-> Sanitize(response_content),
        metadata |->
            [message_id |-> DictGet(coordinated_response, "message_id", ""),
             chat_id |-> IF c.session_id = None THEN "" ELSE c.session_id,
             user_message_id |-> "",
             assistant_message_id |-> DictGet(coordinated_response, "message_id", None),
             model_used |-> c.model,
             tokens_used |-> DictGet(coordinated_response, "tokens", NoneRec),
             latency_ms |-> DictGet(coordinated_response, "processing_time_ms", NoneRec),
             decision_metadata |->
                 DecisionMetadata(coordinated_response, locals.doc_warnings,
                                  locals.context_metadata)],
        processing_time_ms |-> processing_time,
        strategy_used |-> get_strategy_name("SimpleChatStrategy"),
        research_triggered |-> FALSE,
        session_updated |-> FALSE]

\* the ChatProcessingResult process returns
ProcessingResult(c, coordinated_response, locals, processing_time) ==
    LET response_content == ResponseContent(coordinated_response)
    IN [content |-> response_content,
        sanitized_content |-> Sanitize(response_content),
        metadata |->
            [message_id |-> DictGet(coordinated_response, "message_id", ""),
             chat_id |-> IF c.session_id = None THEN "" ELSE c.session_id,
             user_message_id |-> "",
             assistant_message_id |-> DictGet(coordinated_response, "message_id", None),
             model_used |-> c.model,
             tokens_used |-> DictGet(coordinated_response, "tokens", NoneRec),
             latency_ms |-> DictGet(coordinated_response, "processing_time_ms", NoneRec),
             decision_metadata |->
                 DecisionMetadata(coordinated_response, locals.doc_warnings,
                                  locals.context_metadata)],
        processing_time_ms |-> processing_time,
        strategy_used |-> get_strategy_name("SimpleChatStrategy"),
        research_triggered |-> FALSE,
        session_updated |-> FALSE]

\* a variant of AfterLookup: a request none of whose documents came back is
\* refused
AfterLookupRefusing(doc_texts) ==
    IF doc_texts = <<>> THEN "raised" ELSE "await_inference"

\* where process stands after the cache lookup returned doc_texts: it goes on
\* to the inference call whether or not any document came back
AfterLookup(doc_texts) == "await_inference"

\* a variant of AfterException: a failure of the retrieval is swallowed and the
\* request goes on without documents
AfterExceptionSwallowed(step) ==
    IF step \in {"cache", "extract"} THEN "await_inference" ELSE "raised"

\* where process stands after a step raised: nothing in process catches
AfterException(step) == "raised"

(***************************************************************************)
(* The actions of process: call r runs from one suspension point to the    *)
(* next.                                                                   *)
(***************************************************************************)
\* the caller has the factory make the strategy of request r
CreateStrategy(r) ==
    /\ pc[r] = "new"
    /\ strategy' = [strategy EXCEPT ![r] = create_strategy(context[r], "chat_service")]
    /\ pc' = [pc EXCEPT ![r] = "start"]
    /\ UNCHANGED <<env, context, frame, cache_queries, inference_calls,
                   inference_result, sanitizer_calls, raised, outcome, builder_vars, history_vars>>

\* from the entry of process to its first await; the process modelled is
\* that of SimpleChatStrategy
Start(r) ==
    /\ pc[r] = "start"
    /\ strategy[r] = "SimpleChatStrategy"
    /\ frame' = [frame EXCEPT ![Frame(r)] = InitialLocals]
    /\ IF HasDocuments(context[r])
       THEN /\ pc' = [pc EXCEPT ![r] = "await_cache"]
            /\ cache_queries' = [cache_queries EXCEPT ![r] =
                   Append(@, [document_ids |-> context[r].document_ids,
                              user_id |-> context[r].user_id])]
            /\ UNCHANGED inference_calls
       ELSE /\ pc' = [pc EXCEPT ![r] = "await_inference"]
            /\ inference_calls' = [inference_calls EXCEPT ![r] =
                   Append(@, InferenceCall(context[r], InitialLocals.document_context))]
            /\ UNCHANGED cache_queries
    /\ UNCHANGED <<env, context, strategy, inference_result, sanitizer_calls, raised, outcome, builder_vars, history_vars>>

\* the cache lookup returns: extraction, then the inference call (process has
\* no other way on from here: AfterLookup is always "await_inference")
CacheReturns(r) ==
    /\ pc[r] = "await_cache"
    /\ LET doc_texts == GetDocumentTextFromCache(context[r].document_ids,
                                                 context[r].user_id)
           locals == LocalsAfterLookup(doc_texts, env, frame[Frame(r)])
       IN /\ frame' = [frame EXCEPT ![Frame(r)] = locals]
          /\ pc' = [pc EXCEPT ![r] = AfterLookup(doc_texts)]
          /\ inference_calls' = [inference_calls EXCEPT ![r] =
                 IF AfterLookup(doc_texts) = "await_inference"
                 THEN Append(@, InferenceCall(context[r], locals.document_context))
                 ELSE @]
          /\ raised' = [raised EXCEPT ![r] =
                 IF AfterLookup(doc_texts) = "raised" THEN "no_documents" ELSE @]
    /\ UNCHANGED <<env, context, strategy, cache_queries, inference_result,
                   sanitizer_calls, outcome, builder_vars, history_vars>>

\* the cache lookup raises
CacheRaises(r) ==
    /\ pc[r] = "await_cache"
    /\ pc' = [pc EXCEPT ![r] = AfterException("cache")]
    /\ raised' = [raised EXCEPT ![r] = "cache"]
    /\ inference_calls' = [inference_calls EXCEPT ![r] =
           IF AfterException("cache") = "await_inference"
           THEN Append(@, InferenceCall(context[r], frame[Frame(r)].document_context))
           ELSE @]
    /\ UNCHANGED <<env, context, strategy, frame, cache_queries, inference_result,
                   sanitizer_calls, outcome, builder_vars, history_vars>>

\* the cache lookup returns documents and the extraction raises
ExtractRaises(r) ==
    /\ pc[r] = "await_cache"
    /\ GetDocumentTextFromCache(context[r].document_ids, context[r].user_id) # <<>>
    /\ pc' = [pc EXCEPT ![r] = AfterException("extract")]
    /\ raised' = [raised EXCEPT ![r] = "extract"]
    /\ inference_calls' = [inference_calls EXCEPT ![r] =
           IF AfterException("extract") = "await_inference"
           THEN Append(@, InferenceCall(context[r], frame[Frame(r)].document_context))
           ELSE @]
    /\ UNCHANGED <<env, context, strategy, frame, cache_queries, inference_result,
                   sanitizer_calls, outcome, builder_vars, history_vars>>

\* the inference client returns: content, sanitizer, metadata, result
InferenceReturns(r) ==
    /\ pc[r] = "await_inference"
    /\ \E coordinated_response \in InferenceResults, processing_time \in ElapsedTimes :
          /\ inference_result' = [inference_result EXCEPT ![r] = coordinated_response]
          /\ sanitizer_calls' = [sanitizer_calls EXCEPT ![r] =
                 Append(@, ResponseContent(coordinated_response))]
          /\ outcome' = [outcome EXCEPT ![r] =
                 ProcessingResult(context[r], coordinated_response, frame[Frame(r)],
                                  processing_time)]
    /\ pc' = [pc EXCEPT ![r] = "done"]
    /\ UNCHANGED <<env, context, strategy, frame, cache_queries, inference_calls,
                   raised, builder_vars, history_vars>>

\* the inference client raises
InferenceRaises(r) ==
    /\ pc[r] = "await_inference"
    /\ pc' = [pc EXCEPT ![r] = AfterException("inference")]
    /\ raised' = [raised EXCEPT ![r] = "inference"]
    /\ UNCHANGED <<env, context, strategy, frame, cache_queries, inference_calls,
                   inference_result, sanitizer_calls, outcome, builder_vars, history_vars>>

ChatIdle ==
    /\ strategy = [r \in Slots |-> None]
    /\ frame = [f \in Slots |-> InitialLocals]
    /\ cache_queries = [r \in Slots |-> <<>>]
    /\ inference_calls = [r \in Slots |-> <<>>]
    /\ inference_result = [r \in Slots |-> NoneRec]
    /\ sanitizer_calls = [r \in Slots |-> <<>>]
    /\ raised = [r \in Slots |-> None]
    /\ outcome = [r \in Slots |-> NoneRec]

\* no request at all
NoChat ==
    /\ env = [MAX_DOCS_PER_CHAT |-> Unset, MAX_TOTAL_DOC_CHARS |-> Unset]
    /\ context = [r \in Slots |-> IdleContext]
    /\ pc = [r \in Slots |-> "idle"]
    /\ ChatIdle

(***************************************************************************)
(* ChatResponseBuilder.  A builder b is [_data, _metadata, _headers].      *)
(***************************************************************************)
\* dict[key] = value
DictSet(d, key, value) ==
    [k \in DOMAIN d \cup {key} |-> IF k = key THEN value ELSE d[k]]

\* _data["metadata"] is the dict _metadata itself, not a copy of it
MetadataRef == [ref |-> "_metadata"]

\* round(latency_ms, 2): latency_ms in thousandths of a millisecond, the
\* result in hundredths, a tie going to the even neighbour
Round2(thousandths) ==
    LET q == thousandths \div 10
        r == thousandths % 10
    IN IF r < 5 THEN q
       ELSE IF r > 5 THEN q + 1
       ELSE IF q % 2 = 0 THEN q ELSE q + 1

\* ChatResponseBuilder(): timestamp is datetime.utcnow().isoformat()
NewBuilder(timestamp) ==
    [_data |-> [type |-> "chat", response |-> <<>>, chat_id |-> None,
                message_id |-> None, timestamp |-> timestamp],
     _metadata |-> EmptyDict,
     _headers |-> [k \in {"Cache-Control", "Pragma", "Expires"} |->
                      CASE k = "Cache-Control" ->
                               "no-store, no-cache, must-revalidate, max-age=0"
                        [] k = "Pragma" -> "no-cache"
                        [] OTHER -> "0"]]

with_chat_id(b, chat_id) ==
    [b EXCEPT !._data = DictSet(@, "chat_id", chat_id)]

with_message(b, content, sanitized) ==
    LET d == DictSet(b._data, "response", content)
    IN [b EXCEPT !._data = IF sanitized THEN DictSet(d, "sanitized", TRUE) ELSE d]

with_message_id(b, message_id) ==
    [b EXCEPT !._data = DictSet(@, "message_id", message_id)]

with_model(b, model) ==
    [b EXCEPT !._data = DictSet(@, "model", model)]

with_tokens(b, prompt_tokens, completion_tokens) ==
    [b EXCEPT !._data = DictSet(@, "tokens",
        [prompt |-> prompt_tokens,
         completion |-> completion_tokens,
         total |-> prompt_tokens + completion_tokens])]

with_latency(b, latency_ms) ==
    [b EXCEPT !._data = DictSet(@, "latency_ms", Round2(latency_ms))]

with_decision(b, decision) ==
    [b EXCEPT !._data = DictSet(@, "decision", decision)]

with_research_task(b, task_id) ==
    [b EXCEPT !._data = DictSet(DictSet(@, "task_id", task_id),
                                "research_triggered", TRUE)]

with_session_title(b, title) ==
    [b EXCEPT !._data = DictSet(@, "session_title", title)]

with_metadata(b, key, value) ==
    [b EXCEPT !._metadata = DictSet(@, key, value)]

\* a variant of with_error: setting an error blanks the message
with_error_blanking(b, error_message, error_code) ==
    LET d == DictSet(DictSet(b._data, "error", error_message), "response", <<>>)
    IN [b EXCEPT !._data =
           IF error_code # None /\ error_code # ""
           THEN DictSet(d, "error_code", error_code) ELSE d]

\* error_code is None when not given; "if error_code" is false of None and of ""
with_error(b, error_message, error_code) ==
    LET d == DictSet(b._data, "error", error_message)
    IN [b EXCEPT !._data =
           IF error_code # None /\ error_code # ""
           THEN DictSet(d, "error_code", error_code) ELSE d]

\* a variant of from_processing_result: the decision metadata set whether
\* or not it is empty
from_processing_result_decision_always(b, result) ==
    LET meta == result.metadata
        tokens == meta.tokens_used
        task_id == DictGet(result, "task_id", None)
        session_title == DictGet(result, "session_title", None)
        b1 == with_chat_id(b, meta.chat_id)
        b2 == with_message(b1, result.sanitized_content, TRUE)
        b3 == with_message_id(b2, IF meta.assistant_message_id = None THEN ""
                                  ELSE meta.assistant_message_id)
        b4 == with_model(b3, meta.model_used)
        b5 == with_latency(b4, result.processing_time_ms)
        b6 == IF tokens # NoneRec /\ Truthy(tokens)
              THEN with_tokens(b5, DictGet(tokens, "prompt", 0),
                                   DictGet(tokens, "completion", 0))
              ELSE b5
        b7 == with_decision(b6, meta.decision_metadata)
        b8 == IF task_id # None /\ task_id # ""
              THEN with_research_task(b7, task_id) ELSE b7
        b9 == IF session_title # None /\ session_title # ""
              THEN with_session_title(b8, session_title) ELSE b8
        b10 == with_metadata(b9, "strategy_used", result.strategy_used)
    IN with_metadata(b10, "session_updated", result.session_updated)

\* from_processing_result(result): the setters it calls, in its order.  A
\* field of the result that process does not set (task_id, session_title)
\* has the default of ChatProcessingResult, None.
from_processing_result(b, result) ==
    LET meta == result.metadata
        tokens == meta.tokens_used
        task_id == DictGet(result, "task_id", None)
        session_title == DictGet(result, "session_title", None)
        b1 == with_chat_id(b, meta.chat_id)
        b2 == with_message(b1, result.sanitized_content, TRUE)
        b3 == with_message_id(b2, IF meta.assistant_message_id = None THEN ""
                                  ELSE meta.assistant_message_id)
        b4 == with_model(b3, meta.model_used)
        b5 == with_latency(b4, result.processing_time_ms)
        b6 == IF tokens # NoneRec /\ Truthy(tokens)
              THEN with_tokens(b5, DictGet(tokens, "prompt", 0),
                                   DictGet(tokens, "completion", 0))
              ELSE b5
        b7 == IF meta.decision_metadata # NoneRec /\ Truthy(meta.decision_metadata)
              THEN with_decision(b6, meta.decision_metadata)
              ELSE b6
        b8 == IF task_id # None /\ task_id # ""
              THEN with_research_task(b7, task_id) ELSE b7
        b9 == IF session_title # None /\ session_title # ""
              THEN with_session_title(b8, session_title) ELSE b8
        b10 == with_metadata(b9, "strategy_used", result.strategy_used)
    IN with_metadata(b10, "session_updated", result.session_updated)

\* _data after "if self._metadata: self._data['metadata'] = self._metadata"
merged_data(b) ==
    IF Truthy(b._metadata) THEN DictSet(b._data, "metadata", MetadataRef) ELSE b._data

\* a variant of build_state: build() leaves a builder ready for the next
\* response, its fields back to what __init__ set
build_state_resetting(b) ==
    [b EXCEPT !._data = [type |-> "chat", response |-> <<>>, chat_id |-> None,
                         message_id |-> None, timestamp |-> b._data["timestamp"]],
              !._metadata = EmptyDict]

\* the builder as build() leaves it
build_state(b) == [b EXCEPT !._data = merged_data(b)]

\* the JSON body of a content dict: _data["metadata"] is rendered as
\* _metadata stands when the response is made
Render(content, b) ==
    [k \in DOMAIN content |->
        IF k = "metadata" THEN b._metadata ELSE content[k]]

\* JSONResponse(content=..., headers=..., status_code=...)
JSONResponse(body, headers, status_code) ==
    [body |-> body, headers |-> headers, status_code |-> status_code]

\* a variant of build: a builder carrying an error answers with status 500
build_status_by_error(b) ==
    JSONResponse(Render(merged_data(b), b), b._headers,
                 IF "error" \in DOMAIN b._data THEN 500 ELSE 200)

\* what build() returns
build(b) == JSONResponse(Render(merged_data(b), b), b._headers, 200)

\* status_code: int = 500
DEFAULT_STATUS_CODE == 500

\* a variant of build_error: the error keys added to the whole of _data
build_error_whole_data(b, status_code) ==
    JSONResponse(
        Render(DictSet(DictSet(merged_data(b),
                               "error", DictGet(b._data, "error", "Unknown error")),
                       "error_code", DictGet(b._data, "error_code", None)), b),
        b._headers, status_code)

\* a variant of build_error: the status code of the caller not passed on
build_error_always_500(b, status_code) ==
    JSONResponse(
        [error |-> DictGet(b._data, "error", "Unknown error"),
         error_code |-> DictGet(b._data, "error_code", None),
         timestamp |-> b._data["timestamp"]],
        b._headers, 500)

\* a variant of build_error: the headers not passed on
build_error_bare(b, status_code) ==
    JSONResponse(
        [error |-> DictGet(b._data, "error", "Unknown error"),
         error_code |-> DictGet(b._data, "error_code", None),
         timestamp |-> b._data["timestamp"]],
        EmptyDict, status_code)

\* what build_error(status_code) returns
build_error(b, status_code) ==
    JSONResponse(
        [error |-> DictGet(b._data, "error", "Unknown error"),
         error_code |-> DictGet(b._data, "error_code", None),
         timestamp |-> b._data["timestamp"]],
        b._headers, status_code)

(***************************************************************************)
(* The arguments the builder's methods are called with.                    *)
(***************************************************************************)
\* each a list of argument tuples, one tuple per call the model makes
ChatIds == <<"chat-1">>
MessageArgs == << <<Hello, TRUE>>, <<Unsafe, FALSE>>, << <<>>, TRUE>> >>
MessageIds == <<"m1">>
Models == <<"Saptiva Turbo">>
TokenArgs == << <<10, 5>> >>
Latencies == <<23456>>
Decisions == << [route |-> "chat"] >>
TaskIds == <<"task-1">>
Titles == <<"A title">>
MetadataArgs == << <<"k1", "v1">>, <<"k1", "v2">>, <<"k2", "v1">> >>
ErrorArgs == << <<"boom", None>>, <<"boom", "E42">>, <<"other", "">> >>
StatusCodes == {500, 404}
Timestamps == {"2025-01-01T00:00:00", "2025-01-02T00:00:00"}

\* the results from_processing_result is called with: two that process
\* returns, the first of them with a research task and a session title, and
\* the second with a token usage of no prompt and an empty decision, and with
\* an empty token usage
ResultOfProcess(session_id, message_id, document_ids) ==
    ProcessingResult(
        [IdleContext EXCEPT !.session_id = session_id],
        CHOOSE cr \in InferenceResults : DictGet(cr, "message_id", None) = message_id,
        LocalsAfterLookup(GetDocumentTextFromCache(document_ids, IdleContext.user_id),
                          [MAX_DOCS_PER_CHAT |-> Unset, MAX_TOTAL_DOC_CHARS |-> Unset],
                          InitialLocals),
        CHOOSE t \in ElapsedTimes : TRUE)

WithTaskAndTitle(result) ==
    [k \in DOMAIN result \cup {"task_id", "session_title"} |->
        CASE k = "task_id" -> "task-2"
          [] k = "session_title" -> "Another title"
          [] OTHER -> result[k]]

WithUsage(result, tokens_used, decision_metadata) ==
    [result EXCEPT !.metadata.tokens_used = tokens_used,
                   !.metadata.decision_metadata = decision_metadata]

Results ==
    << ResultOfProcess("s1", "m1", <<"d1", "d2">>),
       ResultOfProcess(None, None, <<>>),
       WithTaskAndTitle(ResultOfProcess("s1", "m1", <<"d1", "d2">>)),
       WithUsage(ResultOfProcess(None, None, <<>>), [completion |-> 4], EmptyDict),
       WithUsage(ResultOfProcess(None, None, <<>>), EmptyDict, [route |-> "chat"]) >>

(***************************************************************************)
(* The actions of the builder: one per method.                             *)
(***************************************************************************)
Called(method, args, b) ==
    /\ calls < call_limit
    /\ calls' = calls + 1
    /\ UNCHANGED call_limit
    /\ last_call' = method
    /\ call_log' = Append(call_log, [method |-> method, args |-> args])
    /\ builder' = b
    /\ UNCHANGED <<chat_vars, history_vars>>

WithChatId ==
    /\ \E i \in DOMAIN ChatIds : Called("with_chat_id", <<ChatIds[i]>>, with_chat_id(builder, ChatIds[i]))
    /\ UNCHANGED returned

WithMessage ==
    /\ \E i \in DOMAIN MessageArgs :
          Called("with_message", MessageArgs[i],
                 with_message(builder, MessageArgs[i][1], MessageArgs[i][2]))
    /\ UNCHANGED returned

WithMessageId ==
    /\ \E i \in DOMAIN MessageIds :
          Called("with_message_id", <<MessageIds[i]>>,
                 with_message_id(builder, MessageIds[i]))
    /\ UNCHANGED returned

WithModel ==
    /\ \E i \in DOMAIN Models : Called("with_model", <<Models[i]>>, with_model(builder, Models[i]))
    /\ UNCHANGED returned

WithTokens ==
    /\ \E i \in DOMAIN TokenArgs :
          Called("with_tokens", TokenArgs[i],
                 with_tokens(builder, TokenArgs[i][1], TokenArgs[i][2]))
    /\ UNCHANGED returned

WithLatency ==
    /\ \E i \in DOMAIN Latencies : Called("with_latency", <<Latencies[i]>>, with_latency(builder, Latencies[i]))
    /\ UNCHANGED returned

WithDecision ==
    /\ \E i \in DOMAIN Decisions : Called("with_decision", <<Decisions[i]>>, with_decision(builder, Decisions[i]))
    /\ UNCHANGED returned

WithResearchTask ==
    /\ \E i \in DOMAIN TaskIds :
          Called("with_research_task", <<TaskIds[i]>>,
                 with_research_task(builder, TaskIds[i]))
    /\ UNCHANGED returned

WithSessionTitle ==
    /\ \E i \in DOMAIN Titles :
          Called("with_session_title", <<Titles[i]>>,
                 with_session_title(builder, Titles[i]))
    /\ UNCHANGED returned

WithMetadata ==
    /\ \E i \in DOMAIN MetadataArgs :
          Called("with_metadata", MetadataArgs[i],
                 with_metadata(builder, MetadataArgs[i][1], MetadataArgs[i][2]))
    /\ UNCHANGED returned

WithError ==
    /\ \E i \in DOMAIN ErrorArgs :
          Called("with_error", ErrorArgs[i],
                 with_error(builder, ErrorArgs[i][1], ErrorArgs[i][2]))
    /\ UNCHANGED returned

FromProcessingResult ==
    /\ \E i \in DOMAIN Results :
          Called("from_processing_result", <<i>>,
                 from_processing_result(builder, Results[i]))
    /\ UNCHANGED returned

Build ==
    /\ Called("build", <<>>, build_state(builder))
    /\ returned' = build(builder)

\* build_error(status_code), and build_error() with the default status code
BuildError ==
    \/ \E status_code \in StatusCodes :
          /\ returned' = build_error(builder, status_code)
          /\ Called("build_error", <<status_code>>, builder)
    \/ /\ returned' = build_error(builder, DEFAULT_STATUS_CODE)
       /\ Called("build_error", <<>>, builder)

BuilderNext ==
    \/ WithChatId
    \/ WithMessage
    \/ WithMessageId
    \/ WithModel
    \/ WithTokens
    \/ WithLatency
    \/ WithDecision
    \/ WithResearchTask
    \/ WithSessionTitle
    \/ WithMetadata
    \/ WithError
    \/ FromProcessingResult
    \/ Build
    \/ BuildError

\* a builder just made
BuilderInit ==
    /\ \E t \in Timestamps : builder = NewBuilder(t)
    /\ calls = 0
    /\ call_limit = MaxCalls
    /\ last_call = None
    /\ call_log = <<>>
    /\ returned = NoneRec

\* no builder in use
NoBuilder ==
    /\ builder = NewBuilder("2025-01-01T00:00:00")
    /\ calls = 0
    /\ call_limit = 0
    /\ last_call = None
    /\ call_log = <<>>
    /\ returned = NoneRec

(***************************************************************************)
(* The history router (apps/api/src/routers/history.py).  What it reads:   *)
(* the chat sessions, the chat messages and the history events stored.     *)
(* A text shown to the caller is a sequence of parts, so that a text made  *)
(* of an exception's own text can be told from a fixed one.                *)
(***************************************************************************)
\* the ids of the chats asked for: c1, c2 and c3 are stored, c9 is not
HistoryChatIds == {"c1", "c2", "c3", "c9"}

\* ChatSessionModel.get(chat_id): the session document, or None
StoredSession(chat_id) ==
    CASE chat_id = "c1" ->
             [id |-> "c1", user_id |-> "u1", title |-> <<"First", "chat">>,
              created_at |-> 1, updated_at |-> 5, message_count |-> 3]
      [] chat_id = "c2" ->
             [id |-> "c2", user_id |-> "u2", title |-> <<"Second", "chat">>,
              created_at |-> 2, updated_at |-> 6, message_count |-> 2]
      [] chat_id = "c3" ->
             [id |-> "c3", user_id |-> "u1", title |-> <<"Notes">>,
              created_at |-> 3, updated_at |-> 3, message_count |-> 0]
      [] OTHER -> NoneRec

\* the ids of the sessions stored, the one updated last first
StoredSessionIds == <<"c2", "c1", "c3">>

\* the chat messages stored, in the order of created_at
StoredMessages ==
    << [id |-> "x1", chat_id |-> "c1", role |-> "system", created_at |-> 1],
       [id |-> "x2", chat_id |-> "c1", role |-> "user", created_at |-> 2],
       [id |-> "x3", chat_id |-> "c2", role |-> "user", created_at |-> 3],
       [id |-> "x4", chat_id |-> "c1", role |-> "assistant", created_at |-> 4],
       [id |-> "x5", chat_id |-> "c2", role |-> "assistant", created_at |-> 5] >>

\* the values of HistoryEventType
HistoryEventTypes ==
    {"chat_message", "research_started", "research_progress",
     "research_completed", "research_failed", "source_found",
     "evidence_discovered"}

\* the history events stored, in the order of their timestamps
StoredEvents ==
    << [chat_id |-> "c1", event_type |-> "chat_message", status |-> "completed",
        task_id |-> None, timestamp |-> 2],
       [chat_id |-> "c1", event_type |-> "research_started", status |-> "processing",
        task_id |-> "t1", timestamp |-> 3],
       [chat_id |-> "c2", event_type |-> "chat_message", status |-> "completed",
        task_id |-> None, timestamp |-> 3],
       [chat_id |-> "c1", event_type |-> "source_found", status |-> "completed",
        task_id |-> "t1", timestamp |-> 4],
       [chat_id |-> "c2", event_type |-> "research_completed", status |-> "completed",
        task_id |-> "t2", timestamp |-> 5] >>

\* seq[offset : offset + limit]
Page(seq, offset, limit) ==
    SubSeq(seq, offset + 1, Min(Len(seq), offset + limit))

\* reversed(seq)
Reversed(seq) == [i \in 1..Len(seq) |-> seq[Len(seq) + 1 - i]]

\* a list of event types, or None: [is_none, types]
AllTypes == [is_none |-> TRUE, types |-> <<>>]
TypeList(types) == [is_none |-> FALSE, types |-> types]

\* HistoryService.get_chat_timeline(chat_id, limit, offset, event_types,
\* use_cache): the events of the chat of the types asked for (of every
\* type when event_types is None), a page of them
GetChatTimeline(chat_id, limit, offset, event_types) ==
    LET all == SelectSeq(StoredEvents,
                   LAMBDA e : /\ e.chat_id = chat_id
                              /\ \/ event_types.is_none
                                 \/ \E i \in DOMAIN event_types.types :
                                       event_types.types[i] = e.event_type)
    IN [events |-> Page(all, offset, limit),
        total_count |-> Len(all),
        has_more |-> offset + limit < Len(all)]

\* HistoryService.get_research_timeline(chat_id, task_id)
GetResearchTimeline(chat_id, task_id) ==
    SelectSeq(StoredEvents, LAMBDA e : e.chat_id = chat_id /\ e.task_id = task_id)

\* NO_STORE_HEADERS
NO_STORE_HEADERS ==
    [k \in {"Cache-Control", "Pragma", "Expires"} |->
        CASE k = "Cache-Control" -> "no-store, no-cache, must-revalidate, max-age=0"
          [] k = "Pragma" -> "no-cache"
          [] OTHER -> "0"]

\* the handlers of the router that take a chat_id, by their names; the two
\* others are get_chat_history_overview and get_user_chat_stats
ChatEndpoints ==
    {"get_chat_detailed_history", "export_chat_history", "get_unified_chat_history",
     "get_research_timeline", "get_chat_status"}

\* the handlers that answer with a JSONResponse of their own where the
\* others raise an HTTPException
JsonEndpoints ==
    {"get_unified_chat_history", "get_research_timeline", "get_chat_status"}

\* user_id = getattr(request.state, 'user_id', <default>): the user the
\* middleware put on the request, or the default of the handler
UserIdOf(endpoint, state_user_id) ==
    IF state_user_id # None THEN state_user_id
    ELSE IF endpoint \in JsonEndpoints THEN "mock-user-id" ELSE "anonymous"

\* raise HTTPException(status_code, detail)
HTTPException(status_code, detail) ==
    [status_code |-> status_code, via |-> "HTTPException",
     headers |-> EmptyDict, body |-> [detail |-> detail]]

\* return JSONResponse(content, status_code, headers=NO_STORE_HEADERS)
NoStoreResponse(status_code, content) ==
    [status_code |-> status_code, via |-> "JSONResponse",
     headers |-> NO_STORE_HEADERS, body |-> content]

(***************************************************************************)
(* The checks and the answers of the handlers.                             *)
(***************************************************************************)
\* a variant of AccessCheck: the owner of the session is not looked at
AccessCheckNoOwner(chat_session, user_id) ==
    IF chat_session = NoneRec THEN "not_found" ELSE "ok"

\* a variant of AccessCheck: the owner is compared first, which fails on the
\* None of a missing session (AttributeError)
AccessCheckOwnerFirst(chat_session, user_id) ==
    IF chat_session = NoneRec THEN "error"
    ELSE IF chat_session.user_id # user_id THEN "denied"
    ELSE "ok"

\* "if not chat_session: ...404" and then "if chat_session.user_id != user_id:
\* ...403", as every handler with a chat_id has them
AccessCheck(chat_session, user_id) ==
    IF chat_session = NoneRec THEN "not_found"
    ELSE IF chat_session.user_id # user_id THEN "denied"
    ELSE "ok"

\* the answer to a request for a session that does not exist
NotFoundResponse(endpoint, chat_id) ==
    CASE endpoint \in {"get_chat_detailed_history", "export_chat_history"} ->
             HTTPException(404, <<"Chat session not found">>)
      [] endpoint = "get_unified_chat_history" ->
             NoStoreResponse(404,
                 [error |-> <<"Chat session not found">>, chat_id |-> chat_id,
                  message |-> <<"The requested chat session does not exist">>])
      [] OTHER -> NoStoreResponse(404, [error |-> <<"Chat session not found">>])

\* the answer to a request for the session of another user
DeniedResponse(endpoint, chat_id) ==
    CASE endpoint \in {"get_chat_detailed_history", "export_chat_history"} ->
             HTTPException(403, <<"Access denied to chat session">>)
      [] endpoint = "get_unified_chat_history" ->
             NoStoreResponse(403,
                 [error |-> <<"Access denied">>, chat_id |-> chat_id,
                  message |-> <<"You don't have permission to access this chat session">>])
      [] OTHER -> NoStoreResponse(403, [error |-> <<"Access denied">>])

\* a variant of ErrorResponse: the text of the exception given to the caller
ErrorResponseLeaking(endpoint, chat_id, e, latency_ms) ==
    IF endpoint \in JsonEndpoints
    THEN NoStoreResponse(500, [error |-> <<"Internal server error: ", e>>,
                               latency_ms |-> latency_ms])
    ELSE HTTPException(500, <<"Internal server error: ", e>>)

\* the "except Exception as e" of each handler: e is logged and the answer
\* is made of fixed texts
ErrorResponse(endpoint, chat_id, e, latency_ms) ==
    CASE endpoint \in {"get_chat_history_overview", "get_chat_detailed_history"} ->
             HTTPException(500, <<"Failed to retrieve chat history">>)
      [] endpoint = "export_chat_history" ->
             HTTPException(500, <<"Failed to export chat history">>)
      [] endpoint = "get_user_chat_stats" ->
             HTTPException(500, <<"Failed to retrieve chat statistics">>)
      [] endpoint = "get_unified_chat_history" ->
             NoStoreResponse(500,
                 [error |-> <<"Internal server error">>, chat_id |-> chat_id,
                  message |-> <<"Failed to retrieve chat history">>,
                  latency_ms |-> latency_ms])
      [] endpoint = "get_research_timeline" ->
             NoStoreResponse(500,
                 [error |-> <<"Failed to retrieve research timeline">>,
                  latency_ms |-> latency_ms])
      [] OTHER ->
             NoStoreResponse(500,
                 [error |-> <<"Failed to retrieve chat status">>,
                  latency_ms |-> latency_ms])

\* One piece of the event_types parameter, as split(',') gives it: the
\* text core with lead and trail blanks around it.
Piece(lead, core, trail) == [lead |-> lead, core |-> core, trail |-> trail]

\* t.strip()
Strip(piece) == piece.core

\* an Optional[str] parameter holding a comma-separated list: None, or the
\* pieces of the string; the empty string is one empty piece
NoParam == [is_none |-> TRUE, pieces |-> <<>>]
Param(pieces) == [is_none |-> FALSE, pieces |-> pieces]

\* "if event_types:" - the parameter is given and is not the empty string
ParamGiven(p) == ~p.is_none /\ p.pieces # <<Piece(0, "", 0)>>

\* a variant of ParseEventTypes: a value that is no event type is left out
ParseEventTypesLenient(p) ==
    LET values == [i \in DOMAIN p.pieces |-> Strip(p.pieces[i])]
    IN [ok |-> TRUE,
        types |-> SelectSeq(values, LAMBDA v : v \in HistoryEventTypes),
        error |-> None]

\* [HistoryEventType(t.strip()) for t in event_types.split(',')]: the list,
\* or the ValueError of the first value that is no event type
ParseEventTypes(p) ==
    LET values == [i \in DOMAIN p.pieces |-> Strip(p.pieces[i])]
        bad == { i \in DOMAIN values : values[i] \notin HistoryEventTypes }
    IN IF bad = {}
       THEN [ok |-> TRUE, types |-> values, error |-> None]
       ELSE [ok |-> FALSE, types |-> <<>>,
             error |-> values[CHOOSE i \in bad : \A j \in bad : i <= j]]

\* the answer to a filter that does not parse
InvalidEventTypeResponse(error) ==
    NoStoreResponse(400,
        [error |-> <<"Invalid event type">>,
         message |-> <<"Invalid event type in filter: ", error,
                       " is not a valid HistoryEventType">>])

\* a variant of DefaultEventTypes: the source events added under the
\* research branch only
DefaultEventTypesSourcesOfResearch(include_research, include_sources) ==
    <<"chat_message">>
    \o (IF include_research
        THEN <<"research_started", "research_progress",
               "research_completed", "research_failed">>
             \o (IF include_sources THEN <<"source_found", "evidence_discovered">>
                 ELSE <<>>)
        ELSE <<>>)

\* the filter built from include_research and include_sources when no
\* event_types is given
DefaultEventTypes(include_research, include_sources) ==
    <<"chat_message">>
    \o (IF include_research
        THEN <<"research_started", "research_progress",
               "research_completed", "research_failed">>
        ELSE <<>>)
    \o (IF include_sources THEN <<"source_found", "evidence_discovered">> ELSE <<>>)

(***************************************************************************)
(* The queries of the handlers and the payloads they answer with.          *)
(***************************************************************************)
\* an optional parameter holding a date or a word: None, or the value
NoValue == [is_none |-> TRUE]
Value(v) == [is_none |-> FALSE, value |-> v]

\* a word in lower case, for the words the model searches for and finds
Lower(word) ==
    CASE word = "First" -> "first"
      [] word = "Second" -> "second"
      [] word = "Notes" -> "notes"
      [] word = "CHAT" -> "chat"
      [] OTHER -> word

\* {"title": {"$regex": search, "$options": "i"}}, search being one word
TitleMatches(title, search) ==
    \E i \in DOMAIN title : Lower(title[i]) = Lower(search)

\* the session query of get_chat_history_overview: the ids of the sessions
\* of the user that pass the filters, the one updated last first
SessionsQuery(user_id, date_from, date_to, search) ==
    SelectSeq(StoredSessionIds,
        LAMBDA id :
            LET session == StoredSession(id)
            IN /\ session.user_id = user_id
               /\ date_from.is_none \/ session.created_at >= date_from.value
               /\ date_to.is_none \/ session.created_at <= date_to.value
               /\ \/ search.is_none
                  \/ search.value = ""
                  \/ TitleMatches(session.title, search.value))

\* the message query of get_chat_detailed_history, oldest message first
MessagesQuery(chat_id, include_system, message_type) ==
    SelectSeq(StoredMessages,
        LAMBDA msg :
            /\ msg.chat_id = chat_id
            /\ include_system \/ msg.role # "system"
            /\ message_type = None \/ msg.role = message_type)

\* a variant of OverviewPayload: has_more still true of the last page
OverviewPayloadOneMore(session_ids, total_count, offset) ==
    [sessions |-> [i \in DOMAIN session_ids |-> StoredSession(session_ids[i])],
     total_count |-> total_count,
     has_more |-> offset + Len(session_ids) <= total_count]

\* what get_chat_history_overview returns
OverviewPayload(session_ids, total_count, offset) ==
    [sessions |-> [i \in DOMAIN session_ids |-> StoredSession(session_ids[i])],
     total_count |-> total_count,
     has_more |-> offset + Len(session_ids) < total_count]

\* what get_chat_detailed_history returns: messages_docs reversed
DetailedPayload(chat_id, messages_docs, total_count, offset) ==
    LET messages == Reversed(messages_docs)
    IN [chat_id |-> chat_id,
        messages |-> messages,
        total_count |-> total_count,
        has_more |-> offset + Len(messages) < total_count]

\* what export_chat_history returns for the messages of a chat
ExportPayload(chat_session, messages, format, include_metadata) ==
    CASE format = "json" ->
             [chat_session |->
                  [id |-> chat_session.id, title |-> chat_session.title,
                   created_at |-> chat_session.created_at,
                   message_count |-> Len(messages)],
              messages |->
                  [i \in DOMAIN messages |->
                      IF include_metadata
                      THEN [role |-> messages[i].role,
                            created_at |-> messages[i].created_at,
                            id |-> messages[i].id]
                      ELSE [role |-> messages[i].role,
                            created_at |-> messages[i].created_at]]]
      [] format = "txt" ->
             [content |->
                  <<chat_session.title>>
                  \o [i \in DOMAIN messages |->
                         <<messages[i].created_at, messages[i].role>>]]
      [] OTHER ->
             [content |->
                  << IF include_metadata
                     THEN <<"timestamp", "role", "content", "message_id", "status",
                            "model", "tokens", "latency_ms">>
                     ELSE <<"timestamp", "role", "content">> >>
                  \o [i \in DOMAIN messages |->
                         IF include_metadata
                         THEN <<messages[i].created_at, messages[i].role, messages[i].id>>
                         ELSE <<messages[i].created_at, messages[i].role>>]]

\* datetime.utcnow() when the statistics are asked for, in days
Today == 6

\* the four counts of get_user_chat_stats, in the order they are awaited:
\* the filters of each query as the handler writes them
StatsCount(n, user_id, start_date) ==
    CASE n = 1 ->
             Len(SelectSeq(StoredSessionIds,
                     LAMBDA id : /\ StoredSession(id).user_id = user_id
                                 /\ StoredSession(id).created_at >= start_date))
      [] n = 2 ->
             Len(SelectSeq(StoredMessages, LAMBDA msg : msg.created_at >= start_date))
      [] n = 3 ->
             Len(SelectSeq(StoredMessages,
                     LAMBDA msg : msg.role = "user" /\ msg.created_at >= start_date))
      [] OTHER ->
             Len(SelectSeq(StoredMessages,
                     LAMBDA msg : msg.role = "assistant" /\ msg.created_at >= start_date))

\* what get_user_chat_stats returns; the average is total_messages /
\* session_count, a pair <<numerator, denominator>> here, and 0 without
\* sessions
StatsPayload(days, counts) ==
    [period_days |-> days,
     session_count |-> counts[1],
     total_messages |-> counts[2],
     user_messages |-> counts[3],
     ai_messages |-> counts[4],
     avg_messages_per_session |->
         IF counts[1] > 0 THEN <<counts[2], counts[1]>> ELSE <<0, 1>>,
     start_date |-> Today - days,
     end_date |-> Today]

\* what get_unified_chat_history returns: the timeline with latency_ms,
\* user_id and filters added
UnifiedPayload(timeline_data, latency_ms, user_id, include_research, include_sources, event_type_filter) ==
    [events |-> timeline_data.events,
     total_count |-> timeline_data.total_count,
     has_more |-> timeline_data.has_more,
     latency_ms |-> latency_ms,
     user_id |-> user_id,
     filters |-> [include_research |-> include_research,
                  include_sources |-> include_sources,
                  event_types |-> event_type_filter]]

\* what get_research_timeline returns
ResearchPayload(chat_id, task_id, events, latency_ms) ==
    [chat_id |-> chat_id, task_id |-> task_id, events |-> events,
     event_count |-> Len(events), latency_ms |-> latency_ms]

\* what get_chat_status returns: the research tasks under way among the
\* recent events
StatusPayload(chat_id, chat_session, recent_timeline, latency_ms) ==
    LET active ==
            SelectSeq(recent_timeline.events,
                LAMBDA e : /\ e.event_type \in {"research_started", "research_progress"}
                           /\ e.status = "processing")
        active_research ==
            [i \in DOMAIN active |->
                [task_id |-> active[i].task_id, started_at |-> active[i].timestamp]]
    IN [chat_id |-> chat_id,
        status |-> IF Len(active_research) > 0 THEN "active" ELSE "idle",
        message_count |-> chat_session.message_count,
        last_activity |-> chat_session.updated_at,
        active_research |-> active_research,
        active_research_count |-> Len(active_research),
        latency_ms |-> latency_ms]

(***************************************************************************)
(* The requests of the history router.                                     *)
(***************************************************************************)
\* request.state.user_id as the middleware set it, None when it set none
StateUserIds == {"u1", "u2", None}

\* the limits and offsets asked for
Limits == 1..MaxLimit
Offsets == 0..MaxOffset

\* the event_types parameters asked for
EventTypeParams ==
    { NoParam,
      Param(<<Piece(0, "", 0)>>),
      Param(<<Piece(1, "", 0)>>),
      Param(<<Piece(0, "chat_message", 0)>>),
      Param(<<Piece(1, "research_started", 1), Piece(0, "source_found", 0)>>),
      Param(<<Piece(0, "chat_message", 0), Piece(0, "bogus", 0)>>),
      Param(<<Piece(0, "CHAT_MESSAGE", 0)>>),
      Param(<<Piece(0, "chat_message", 0), Piece(0, "", 0)>>) }

\* a request: the parameters a handler does not take stand at these values
RequestDefaults ==
    [endpoint |-> None, state_user_id |-> None, chat_id |-> None, task_id |-> None,
     path |-> <<>>, limit |-> 1, offset |-> 0, include_system |-> FALSE, message_type |-> None,
     format |-> "json", include_metadata |-> FALSE, days |-> 30,
     event_types |-> NoParam, include_research |-> TRUE, include_sources |-> FALSE,
     search |-> NoValue, date_from |-> NoValue, date_to |-> NoValue]

Request(endpoint, state_user_id, params) ==
    [k \in DOMAIN RequestDefaults |->
        IF k = "endpoint" THEN endpoint
        ELSE IF k = "state_user_id" THEN state_user_id
        ELSE IF k \in DOMAIN params THEN params[k]
        ELSE RequestDefaults[k]]

HistoryRequests ==
    { Request("get_chat_history_overview", u,
              [limit |-> l, offset |-> o, search |-> s, date_from |-> d]) :
          u \in StateUserIds, l \in Limits, o \in Offsets,
          s \in {NoValue, Value("CHAT"), Value("notes")},
          d \in {NoValue, Value(3)} }
    \cup
    { Request("get_chat_detailed_history", u,
              [chat_id |-> c, limit |-> l, offset |-> o,
               include_system |-> i, message_type |-> t]) :
          u \in StateUserIds, c \in HistoryChatIds, l \in Limits, o \in Offsets,
          i \in BOOLEAN, t \in {None, "user"} }
    \cup
    { Request("export_chat_history", u,
              [chat_id |-> c, format |-> f, include_metadata |-> i]) :
          u \in StateUserIds, c \in HistoryChatIds, f \in {"json", "csv", "txt"},
          i \in BOOLEAN }
    \cup
    { Request("get_user_chat_stats", u, [days |-> d]) :
          u \in StateUserIds, d \in {1, 30} }
    \cup
    { Request("get_unified_chat_history", u,
              [chat_id |-> c, limit |-> l, offset |-> o, event_types |-> e,
               include_research |-> r, include_sources |-> s]) :
          u \in StateUserIds, c \in HistoryChatIds, l \in Limits, o \in {0, 1},
          e \in EventTypeParams, r \in BOOLEAN, s \in BOOLEAN }
    \cup
    { Request("get_research_timeline", u, [chat_id |-> c, task_id |-> t]) :
          u \in StateUserIds, c \in HistoryChatIds, t \in {"t1", "t2"} }
    \cup
    { Request("get_chat_status", u, [chat_id |-> c]) :
          u \in StateUserIds, c \in HistoryChatIds }

\* The routes of the router in the order of their declaration.  A path is
\* the sequence of its segments, {chat_id} and {task_id} standing for any
\* one segment.
Routes ==
    << [pattern |-> <<"history">>, endpoint |-> "get_chat_history_overview"],
       [pattern |-> <<"history", "{chat_id}">>, endpoint |-> "get_chat_detailed_history"],
       [pattern |-> <<"history", "{chat_id}", "export">>,
        endpoint |-> "export_chat_history"],
       [pattern |-> <<"history", "stats">>, endpoint |-> "get_user_chat_stats"],
       [pattern |-> <<"history", "{chat_id}", "unified">>,
        endpoint |-> "get_unified_chat_history"],
       [pattern |-> <<"history", "{chat_id}", "research", "{task_id}">>,
        endpoint |-> "get_research_timeline"],
       [pattern |-> <<"history", "{chat_id}", "status">>,
        endpoint |-> "get_chat_status"] >>

\* the path matches the pattern of a route
Matches(pattern, path) ==
    /\ Len(pattern) = Len(path)
    /\ \A i \in DOMAIN pattern :
          pattern[i] \in {"{chat_id}", "{task_id}"} \/ pattern[i] = path[i]

\* the route a GET of the path is dispatched to: the first declared that
\* matches, 0 when none does
RouteOf(path) ==
    LET matching == { i \in DOMAIN Routes : Matches(Routes[i].pattern, path) }
    IN IF matching = {} THEN 0
       ELSE CHOOSE i \in matching : \A j \in matching : i <= j

\* the paths asked for with GET
HistoryPaths ==
    { <<"history">>, <<"history", "c1">>, <<"history", "stats">>,
      <<"history", "c1", "export">>, <<"history", "stats", "export">>,
      <<"history", "c2", "unified">>, <<"history", "c1", "research", "t1">>,
      <<"history", "c3", "status">>, <<"history", "c1", "messages">> }

\* the requests that come in by their path
RoutedRequests ==
    { Request(None, u, [path |-> p, days |-> d]) :
          u \in StateUserIds, p \in HistoryPaths, d \in {1, 30} }

\* the texts of the exceptions the database and the history service raise
ExceptionTexts == {"connection refused"}

\* int(processing_time): the readings of the clock the model draws from
HistoryLatencies == {12}

\* get_chat_status asks for the 10 most recent events
STATUS_LIMIT == 10

\* no exception so far
NoError == [at |-> None, text |-> None]

\* the locals of a handler before its first await
NoLocals ==
    [chat_session |-> NoneRec, total_count |-> 0, counts |-> <<>>,
     event_type_filter |-> AllTypes]

\* a call of the database or of the history service
Call(op, chat_id) == [op |-> op, chat_id |-> chat_id]

\* what a handler returns by "return <payload>"
Returned(content) ==
    [status_code |-> 200, via |-> "return", headers |-> EmptyDict, body |-> content]

\* a variant of ExceptHTTPException: the HTTPException a handler raises in
\* its try block is caught with every other exception
ExceptHTTPExceptionCaught(endpoint, chat_id, http_exception, latency_ms) ==
    ErrorResponse(endpoint, chat_id, "HTTPException", latency_ms)

\* "except HTTPException: raise": the 404 or 403 a handler raised in its
\* try block leaves it as it is
ExceptHTTPException(endpoint, chat_id, http_exception, latency_ms) == http_exception

(***************************************************************************)
(* The actions of a handler: from one await to the next.                   *)
(***************************************************************************)
\* the handler answers
Respond(response) ==
    /\ h_response' = response
    /\ h_pc' = "done"

\* the handler awaits a further call
Await(pc_next, call) ==
    /\ h_calls' = Append(h_calls, call)
    /\ h_pc' = pc_next
    /\ UNCHANGED h_response

\* the router dispatches a request to the handler of its route, the path
\* parameters bound; a path of no route is answered by the framework
Dispatch ==
    /\ h_pc = "received"
    /\ LET route == RouteOf(h_request.path)
           pattern == Routes[route].pattern
           param(name, default) ==
               IF \E i \in DOMAIN pattern : pattern[i] = name
               THEN h_request.path[CHOOSE i \in DOMAIN pattern : pattern[i] = name]
               ELSE default
       IN IF route = 0
          THEN /\ Respond(HTTPException(404, <<"Not Found">>))
               /\ UNCHANGED h_request
          ELSE /\ h_request' = [h_request EXCEPT
                                    !.endpoint = Routes[route].endpoint,
                                    !.chat_id = param("{chat_id}", @),
                                    !.task_id = param("{task_id}", @)]
               /\ h_pc' = "start"
               /\ UNCHANGED h_response
    /\ UNCHANGED <<h_locals, h_calls, h_error, chat_vars, builder_vars>>

\* from the entry of the handler to its first await
HistoryStart ==
    /\ h_pc = "start"
    /\ IF h_request.endpoint \in ChatEndpoints
       THEN Await("await_session", Call("ChatSessionModel.get", h_request.chat_id))
       ELSE Await("await_count", Call("ChatSessionModel.count", None))
    /\ UNCHANGED <<h_request, h_locals, h_error, chat_vars, builder_vars>>

\* get_unified_chat_history once the requester may read the chat: the
\* filter is parsed or built, and the timeline asked for
UnifiedAfterAccess(chat_session) ==
    LET parsed == ParseEventTypes(h_request.event_types)
    IN IF ParamGiven(h_request.event_types) /\ ~parsed.ok
       THEN /\ Respond(InvalidEventTypeResponse(parsed.error))
            /\ UNCHANGED h_calls
            /\ h_locals' = [h_locals EXCEPT !.chat_session = chat_session]
       ELSE /\ Await("await_timeline",
                     Call("HistoryService.get_chat_timeline", h_request.chat_id))
            /\ h_locals' =
                   [h_locals EXCEPT
                       !.chat_session = chat_session,
                       !.event_type_filter =
                           IF ParamGiven(h_request.event_types)
                           THEN TypeList(parsed.types)
                           ELSE TypeList(DefaultEventTypes(h_request.include_research,
                                                           h_request.include_sources))]

\* ChatSessionModel.get returns: the two checks, then the next await of the
\* handler
SessionReturns ==
    /\ h_pc = "await_session"
    /\ LET endpoint == h_request.endpoint
           chat_id == h_request.chat_id
           chat_session == StoredSession(chat_id)
           access == AccessCheck(chat_session, UserIdOf(endpoint, h_request.state_user_id))
           raises == endpoint \notin JsonEndpoints
       IN \E latency_ms \in HistoryLatencies :
          CASE access = "not_found" ->
                   /\ Respond(IF raises
                              THEN ExceptHTTPException(endpoint, chat_id,
                                       NotFoundResponse(endpoint, chat_id), latency_ms)
                              ELSE NotFoundResponse(endpoint, chat_id))
                   /\ UNCHANGED <<h_calls, h_locals, h_error>>
            [] access = "denied" ->
                   /\ Respond(IF raises
                              THEN ExceptHTTPException(endpoint, chat_id,
                                       DeniedResponse(endpoint, chat_id), latency_ms)
                              ELSE DeniedResponse(endpoint, chat_id))
                   /\ UNCHANGED <<h_calls, h_error>>
                   /\ h_locals' = [h_locals EXCEPT !.chat_session = chat_session]
            [] access = "error" ->
                   /\ Respond(ErrorResponse(endpoint, chat_id, "AttributeError", latency_ms))
                   /\ h_error' = [at |-> "check", text |-> "AttributeError"]
                   /\ UNCHANGED <<h_calls, h_locals>>
            [] endpoint = "get_unified_chat_history" ->
                   /\ UnifiedAfterAccess(chat_session)
                   /\ UNCHANGED h_error
            [] OTHER ->
                   /\ h_locals' = [h_locals EXCEPT !.chat_session = chat_session]
                   /\ UNCHANGED h_error
                   /\ CASE endpoint = "get_chat_detailed_history" ->
                               Await("await_count", Call("ChatMessageModel.count", chat_id))
                        [] endpoint = "export_chat_history" ->
                               Await("await_list", Call("ChatMessageModel.to_list", chat_id))
                        [] endpoint = "get_research_timeline" ->
                               Await("await_timeline",
                                     Call("HistoryService.get_research_timeline", chat_id))
                        [] OTHER ->
                               Await("await_timeline",
                                     Call("HistoryService.get_chat_timeline", chat_id))
    /\ UNCHANGED <<h_request, chat_vars, builder_vars>>

\* a count returns
CountReturns ==
    /\ h_pc = "await_count"
    /\ LET endpoint == h_request.endpoint
           user_id == UserIdOf(endpoint, h_request.state_user_id)
       IN CASE endpoint = "get_chat_history_overview" ->
                   /\ h_locals' = [h_locals EXCEPT !.total_count =
                          Len(SessionsQuery(user_id, h_request.date_from,
                                            h_request.date_to, h_request.search))]
                   /\ Await("await_list", Call("ChatSessionModel.to_list", None))
            [] endpoint = "get_chat_detailed_history" ->
                   /\ h_locals' = [h_locals EXCEPT !.total_count =
                          Len(MessagesQuery(h_request.chat_id, h_request.include_system,
                                            h_request.message_type))]
                   /\ Await("await_list", Call("ChatMessageModel.to_list", h_request.chat_id))
            [] OTHER ->
                   LET counts == Append(h_locals.counts,
                                    StatsCount(Len(h_locals.counts) + 1, user_id,
                                               Today - h_request.days))
                   IN /\ h_locals' = [h_locals EXCEPT !.counts = counts]
                      /\ IF Len(counts) = 4
                         THEN /\ Respond(Returned(StatsPayload(h_request.days, counts)))
                              /\ UNCHANGED h_calls
                         ELSE Await("await_count", Call("ChatMessageModel.count", None))
    /\ UNCHANGED <<h_request, h_error, chat_vars, builder_vars>>

\* to_list returns: the payload is made and returned
ListReturns ==
    /\ h_pc = "await_list"
    /\ LET endpoint == h_request.endpoint
           user_id == UserIdOf(endpoint, h_request.state_user_id)
       IN Respond(Returned(
              CASE endpoint = "get_chat_history_overview" ->
                       OverviewPayload(
                           Page(SessionsQuery(user_id, h_request.date_from,
                                              h_request.date_to, h_request.search),
                                h_request.offset, h_request.limit),
                           h_locals.total_count, h_request.offset)
                [] endpoint = "get_chat_detailed_history" ->
                       DetailedPayload(
                           h_request.chat_id,
                           Page(Reversed(MessagesQuery(h_request.chat_id,
                                                       h_request.include_system,
                                                       h_request.message_type)),
                                h_request.offset, h_request.limit),
                           h_locals.total_count, h_request.offset)
                [] OTHER ->
                       ExportPayload(h_locals.chat_session,
                                     MessagesQuery(h_request.chat_id, TRUE, None),
                                     h_request.format, h_request.include_metadata)))
    /\ UNCHANGED <<h_request, h_locals, h_calls, h_error, chat_vars, builder_vars>>

\* the history service returns
TimelineReturns ==
    /\ h_pc = "await_timeline"
    /\ LET endpoint == h_request.endpoint
           chat_id == h_request.chat_id
           user_id == UserIdOf(endpoint, h_request.state_user_id)
       IN \E latency_ms \in HistoryLatencies :
          Respond(NoStoreResponse(200,
              CASE endpoint = "get_unified_chat_history" ->
                       UnifiedPayload(
                           GetChatTimeline(chat_id, h_request.limit, h_request.offset,
                                           h_locals.event_type_filter),
                           latency_ms, user_id, h_request.include_research,
                           h_request.include_sources, h_locals.event_type_filter.types)
                [] endpoint = "get_research_timeline" ->
                       ResearchPayload(chat_id, h_request.task_id,
                                       GetResearchTimeline(chat_id, h_request.task_id),
                                       latency_ms)
                [] OTHER ->
                       StatusPayload(chat_id, h_locals.chat_session,
                                     GetChatTimeline(chat_id, STATUS_LIMIT, 0, AllTypes),
                                     latency_ms)))
    /\ UNCHANGED <<h_request, h_locals, h_calls, h_error, chat_vars, builder_vars>>

\* a call of the database raises
DatabaseRaises ==
    /\ h_pc \in {"await_session", "await_count", "await_list"}
    /\ \E e \in ExceptionTexts, latency_ms \in HistoryLatencies :
          /\ h_error' = [at |-> h_pc, text |-> e]
          /\ Respond(ErrorResponse(h_request.endpoint, h_request.chat_id, e, latency_ms))
    /\ UNCHANGED <<h_request, h_locals, h_calls, chat_vars, builder_vars>>

\* a call of the history service raises
HistoryServiceRaises ==
    /\ h_pc = "await_timeline"
    /\ \E e \in ExceptionTexts, latency_ms \in HistoryLatencies :
          /\ h_error' = [at |-> h_pc, text |-> e]
          /\ Respond(ErrorResponse(h_request.endpoint, h_request.chat_id, e, latency_ms))
    /\ UNCHANGED <<h_request, h_locals, h_calls, chat_vars, builder_vars>>

HistoryNext ==
    \/ Dispatch
    \/ HistoryStart
    \/ SessionReturns
    \/ CountReturns
    \/ ListReturns
    \/ TimelineReturns
    \/ DatabaseRaises
    \/ HistoryServiceRaises

\* no request to the history router
NoHistory ==
    /\ h_request = Request(None, None, <<>>)
    /\ h_pc = "idle"
    /\ h_locals = NoLocals
    /\ h_calls = <<>>
    /\ h_error = NoError
    /\ h_response = NoneRec

\* a request to the history router comes in
HistoryInit ==
    /\ \/ h_request \in HistoryRequests /\ h_pc = "start"
       \/ h_request \in RoutedRequests /\ h_pc = "received"
    /\ h_locals = NoLocals
    /\ h_calls = <<>>
    /\ h_error = NoError
    /\ h_response = NoneRec

(***************************************************************************)
(* The specifications.                                                     *)
(***************************************************************************)
\* one request
Init ==
    /\ env \in Environments
    /\ \E c \in Contexts(MaxIds) :
          context = [r \in Slots |-> IF r = 1 THEN c ELSE IdleContext]
    /\ pc = [r \in Slots |-> IF r = 1 THEN "new" ELSE "idle"]
    /\ ChatIdle
    /\ NoBuilder
    /\ NoHistory

Next ==
    \E r \in Slots :
       \/ CreateStrategy(r)
       \/ Start(r)
       \/ CacheReturns(r)
       \/ CacheRaises(r)
       \/ ExtractRaises(r)
       \/ InferenceReturns(r)
       \/ InferenceRaises(r)

Spec == Init /\ [][Next]_vars

\* two requests, interleaved at their suspension points
ConcInit ==
    /\ env \in Environments
    /\ context \in [Slots -> ConcContexts(ConcMaxIds)]
    /\ pc = [r \in Slots |-> "new"]
    /\ ChatIdle
    /\ NoBuilder
    /\ NoHistory

ConcSpec == ConcInit /\ [][Next]_vars

\* one builder and the calls made on it
BuilderSpecInit == NoChat /\ BuilderInit /\ NoHistory

BuilderSpec == BuilderSpecInit /\ [][BuilderNext]_vars

\* one builder and the calls made on it, before it is asked whether two
\* further setters commute
CommuteInit ==
    /\ NoChat
    /\ NoHistory
    /\ \E t \in Timestamps : builder = NewBuilder(t)
    /\ calls = 0
    /\ call_limit = MaxCallsBefore
    /\ last_call = None
    /\ call_log = <<>>
    /\ returned = NoneRec

CommuteSpec == CommuteInit /\ [][BuilderNext]_vars

\* one request to the history router
HistorySpecInit == NoChat /\ NoBuilder /\ HistoryInit

HistorySpec == HistorySpecInit /\ [][HistoryNext]_vars

(***************************************************************************)
(* What the claims speak of.                                               *)
(***************************************************************************)
\* call r has entered process
Entered(r) == pc[r] \notin {"idle", "new", "start"}

\* the document context of the calls r made of the inference client
ContextsSent(r) ==
    { inference_calls[r][i].document_context : i \in DOMAIN inference_calls[r] }

\* the decision metadata of the result r returned
DecisionOf(r) == outcome[r].metadata.decision_metadata

\* what the cache lookup gives for the request of r
DocTextsOf(r) ==
    GetDocumentTextFromCache(context[r].document_ids, context[r].user_id)

\* the first n elements of a sequence
FirstN(seq, n) == SubSeq(seq, 1, Min(Len(seq), n))

\* the document ids of a sequence of pieces or of cache entries
IdsOfParts(parts) == { parts[i].doc : i \in DOMAIN parts }
IdsOfEntries(entries) == { entries[i].id : i \in DOMAIN entries }
IdsOf(ids) == { ids[i] : i \in DOMAIN ids }

(***************************************************************************)
(* C1.  The document context handed to the inference client is at most     *)
(* max_total_doc_chars long, and each document contributes at most         *)
(* max_chars_per_doc (8000) characters, the per-document cap being applied *)
(* first: a document that contributes does so with its text cut to 8000.   *)
(***************************************************************************)
C1_ContextWithinBudgets ==
    \A r \in Slots : \A c \in ContextsSent(r) :
        /\ ContextLen(c) <= max_total_doc_chars(env)
        /\ \A i \in DOMAIN c.parts :
              /\ c.parts[i].chars <= MAX_CHARS_PER_DOC
              /\ c.parts[i].chars =
                     Min(StoredDocument(c.parts[i].doc).chars, MAX_CHARS_PER_DOC)

\* a context that fills the aggregate budget and holds a document cut to 8000
C1_Witness ==
    \E c \in ContextsSent(1) :
        /\ ContextLen(c) = max_total_doc_chars(env)
        /\ Len(c.parts) >= 2
        /\ \E i \in DOMAIN c.parts :
              /\ StoredDocument(c.parts[i].doc).chars > MAX_CHARS_PER_DOC
              /\ c.parts[i].chars = MAX_CHARS_PER_DOC

(***************************************************************************)
(* C2, as claimed.  When the request names more than max_docs_per_chat     *)
(* documents, only the first max_docs_per_chat ids of the request          *)
(* contribute to the context, and used_docs <= max_docs_per_chat.          *)
(***************************************************************************)
C2_OnlyFirstIdsOfRequest ==
    \A r \in Slots :
        Len(context[r].document_ids) > max_docs_per_chat(env) =>
            /\ \A c \in ContextsSent(r) :
                  IdsOfParts(c.parts) \subseteq
                      IdsOf(FirstN(context[r].document_ids, max_docs_per_chat(env)))
            /\ pc[r] = "done" =>
                  DecisionOf(r)["context_stats"].used_docs <= max_docs_per_chat(env)

(***************************************************************************)
(* C2, amended.  When the request names more than max_docs_per_chat        *)
(* documents, only the first max_docs_per_chat of the documents the cache  *)
(* lookup returns (in the order returned) contribute to the context, and   *)
(* used_docs <= max_docs_per_chat.                                         *)
(***************************************************************************)
C2_OnlyFirstDocsReturned ==
    \A r \in Slots :
        Len(context[r].document_ids) > max_docs_per_chat(env) =>
            /\ \A c \in ContextsSent(r) :
                  /\ IdsOfParts(c.parts) \subseteq
                         IdsOfEntries(FirstN(DocTextsOf(r), max_docs_per_chat(env)))
                  /\ Len(c.parts) <= max_docs_per_chat(env)
            /\ pc[r] = "done" =>
                  DecisionOf(r)["context_stats"].used_docs <= max_docs_per_chat(env)

\* a request with more ids than the limit, whose lookup returned more
\* documents than the limit, has returned with the limit reached
C2_Witness ==
    /\ pc[1] = "done"
    /\ Len(context[1].document_ids) > max_docs_per_chat(env)
    /\ Len(DocTextsOf(1)) > max_docs_per_chat(env)
    /\ DecisionOf(1)["context_stats"].used_docs = max_docs_per_chat(env)

(***************************************************************************)
(* C3.  A request without document ids never queries the document cache,   *)
(* calls the inference client with document_context = None, and returns a  *)
(* result without document_warnings and with context_stats                 *)
(* {used_docs: 0, used_chars: 0}.                                          *)
(***************************************************************************)
C3_NoDocumentIds ==
    \A r \in Slots :
        (Entered(r) /\ context[r].document_ids = <<>>) =>
            /\ cache_queries[r] = <<>>
            /\ Len(inference_calls[r]) = 1
            /\ ContextsSent(r) = {NoContext}
            /\ pc[r] = "done" =>
                  /\ "document_warnings" \notin DOMAIN DecisionOf(r)
                  /\ "context_stats" \in DOMAIN DecisionOf(r)
                  /\ DecisionOf(r)["context_stats"] = [used_docs |-> 0, used_chars |-> 0]

\* a request without document ids has returned
C3_Witness ==
    /\ pc[1] = "done"
    /\ context[1].document_ids = <<>>
    /\ inference_result[1] # NoneRec

(***************************************************************************)
(* C4.  When a request names documents and the cache lookup returns none   *)
(* of them, process does not fail: it calls the inference client exactly   *)
(* once, with document_context = None, and returns a result when the       *)
(* client answers.                                                         *)
(***************************************************************************)
C4_NoDocumentReturned ==
    \A r \in Slots :
        (context[r].document_ids # <<>> /\ DocTextsOf(r) = <<>>
            /\ Entered(r) /\ pc[r] # "await_cache" /\ raised[r] # "cache") =>
            /\ raised[r] \in {None, "inference"}
            /\ Len(inference_calls[r]) = 1
            /\ ContextsSent(r) = {NoContext}
            /\ raised[r] = None => pc[r] \in {"await_inference", "done"}
            /\ pc[r] = "done" => outcome[r] # NoneRec

\* a request all of whose documents the lookup left out has returned
C4_Witness ==
    /\ pc[1] = "done"
    /\ context[1].document_ids # <<>>
    /\ DocTextsOf(1) = <<>>
    /\ outcome[1] # NoneRec

\* a requested document is another user's, or its text has left the cache
HasProblemDocument(c) ==
    \E i \in DOMAIN c.document_ids :
        \/ StoredDocument(c.document_ids[i]).user_id # c.user_id
        \/ ~StoredDocument(c.document_ids[i]).cached

(***************************************************************************)
(* C5, as claimed.  When at least one requested document is expired or     *)
(* inaccessible to the user, the request completes and the result's        *)
(* decision metadata holds a non-empty document_warnings list.             *)
(***************************************************************************)
C5_ProblemsBecomeWarnings ==
    \A r \in Slots :
        (pc[r] = "done" /\ HasProblemDocument(context[r])) =>
            /\ "document_warnings" \in DOMAIN DecisionOf(r)
            /\ DecisionOf(r)["document_warnings"] # <<>>

\* the response is missing, has no choices attribute, or has no choice
NoChoice(coordinated_response) ==
    \/ "response" \notin DOMAIN coordinated_response
    \/ ~coordinated_response["response"].has_choices
    \/ coordinated_response["response"].choices = <<>>

(***************************************************************************)
(* C6.  When the response of the inference result has an empty choices     *)
(* list, no choices attribute, or is missing, process does not fail: the   *)
(* content is the empty string, the sanitizer is applied to the empty      *)
(* string, and a result is returned.                                       *)
(***************************************************************************)
C6_NoChoiceGivesEmptyContent ==
    \A r \in Slots :
        (inference_result[r] # NoneRec /\ NoChoice(inference_result[r])) =>
            /\ pc[r] = "done"
            /\ raised[r] = None
            /\ outcome[r] # NoneRec
            /\ outcome[r].content = <<>>
            /\ sanitizer_calls[r] = << <<>> >>
            /\ outcome[r].sanitized_content = Sanitize(<<>>)

\* the inference client answered with an empty choices list
C6_Witness ==
    /\ pc[1] = "done"
    /\ "response" \in DOMAIN inference_result[1]
    /\ inference_result[1]["response"].has_choices
    /\ inference_result[1]["response"].choices = <<>>

(***************************************************************************)
(* C7.  An exception of the cache lookup, of the extraction or of the      *)
(* inference client leaves process: no result is returned for the request, *)
(* and when it comes from the retrieval the inference client is never      *)
(* called.                                                                 *)
(***************************************************************************)
C7_ExceptionsPropagate ==
    \A r \in Slots :
        raised[r] # None =>
            /\ pc[r] = "raised"
            /\ outcome[r] = NoneRec
            /\ raised[r] \in {"cache", "extract"} => inference_calls[r] = <<>>

\* the extraction raised
C7_Witness == raised[1] = "extract" /\ cache_queries[1] # <<>>

\* the locals of a call running alone, when it calls the inference client
AloneLocals(c, e) ==
    IF c.document_ids # <<>>
    THEN LocalsAfterLookup(GetDocumentTextFromCache(c.document_ids, c.user_id),
                           e, InitialLocals)
    ELSE InitialLocals

(***************************************************************************)
(* C8.  Two interleaved calls of process do not interfere: each returns    *)
(* the result it returns when run alone on the same request, and hands the *)
(* inference client the document context of its own request.              *)
(***************************************************************************)
C8_NoInterference ==
    \A r \in Slots :
        /\ \A c \in ContextsSent(r) : c = AloneLocals(context[r], env).document_context
        /\ pc[r] = "done" =>
              LET alone == AloneLocals(context[r], env)
                  dm == DecisionOf(r)
              IN /\ ("document_warnings" \in DOMAIN dm) = (alone.doc_warnings # <<>>)
                 /\ "document_warnings" \in DOMAIN dm =>
                        dm["document_warnings"] = alone.doc_warnings
                 /\ dm["context_stats"] = alone.context_metadata
                 /\ outcome[r].metadata.chat_id =
                        (IF context[r].session_id = None THEN "" ELSE context[r].session_id)
                 /\ outcome[r].content = ResponseContent(inference_result[r])

\* both calls have returned, one with document warnings and a context, the
\* other with neither
C8_Witness ==
    /\ pc[1] = "done"
    /\ pc[2] = "done"
    /\ "document_warnings" \in DOMAIN DecisionOf(1)
    /\ "document_warnings" \notin DOMAIN DecisionOf(2)
    /\ DecisionOf(1)["context_stats"] # DecisionOf(2)["context_stats"]
    /\ context[1].user_id # context[2].user_id

\* the setter calls of the model, each <<method, index of its arguments>>
SetterCalls ==
    [i \in DOMAIN ChatIds |-> <<"with_chat_id", i>>]
    \o [i \in DOMAIN MessageArgs |-> <<"with_message", i>>]
    \o [i \in DOMAIN MessageIds |-> <<"with_message_id", i>>]
    \o [i \in DOMAIN Models |-> <<"with_model", i>>]
    \o [i \in DOMAIN TokenArgs |-> <<"with_tokens", i>>]
    \o [i \in DOMAIN Latencies |-> <<"with_latency", i>>]
    \o [i \in DOMAIN Decisions |-> <<"with_decision", i>>]
    \o [i \in DOMAIN TaskIds |-> <<"with_research_task", i>>]
    \o [i \in DOMAIN Titles |-> <<"with_session_title", i>>]
    \o [i \in DOMAIN MetadataArgs |-> <<"with_metadata", i>>]
    \o [i \in DOMAIN ErrorArgs |-> <<"with_error", i>>]

\* the builder after setter call c
Apply(b, c) ==
    LET i == c[2]
    IN CASE c[1] = "with_chat_id" -> with_chat_id(b, ChatIds[i])
         [] c[1] = "with_message" -> with_message(b, MessageArgs[i][1], MessageArgs[i][2])
         [] c[1] = "with_message_id" -> with_message_id(b, MessageIds[i])
         [] c[1] = "with_model" -> with_model(b, Models[i])
         [] c[1] = "with_tokens" -> with_tokens(b, TokenArgs[i][1], TokenArgs[i][2])
         [] c[1] = "with_latency" -> with_latency(b, Latencies[i])
         [] c[1] = "with_decision" -> with_decision(b, Decisions[i])
         [] c[1] = "with_research_task" -> with_research_task(b, TaskIds[i])
         [] c[1] = "with_session_title" -> with_session_title(b, Titles[i])
         [] c[1] = "with_metadata" -> with_metadata(b, MetadataArgs[i][1], MetadataArgs[i][2])
         [] OTHER -> with_error(b, ErrorArgs[i][1], ErrorArgs[i][2])

\* different setters, or with_metadata for different keys
IndependentCalls(c1, c2) ==
    \/ c1[1] # c2[1]
    \/ /\ c1[1] = "with_metadata"
       /\ MetadataArgs[c1[2]][1] # MetadataArgs[c2[2]][1]

(***************************************************************************)
(* C9.  The setters of the builder commute: two different setters, or two  *)
(* calls of with_metadata with different keys, applied in either order to  *)
(* the same builder, give the same built payload.                          *)
(***************************************************************************)
C9_SettersCommute ==
    \A i, j \in DOMAIN SetterCalls :
        (i < j /\ IndependentCalls(SetterCalls[i], SetterCalls[j])) =>
            build(Apply(Apply(builder, SetterCalls[i]), SetterCalls[j]))
                = build(Apply(Apply(builder, SetterCalls[j]), SetterCalls[i]))

\* a builder on which two setters have been called, with_message one of them
C9_Witness ==
    /\ calls = 2
    /\ last_call = "with_error"
    /\ "sanitized" \in DOMAIN builder._data
    /\ "error_code" \in DOMAIN builder._data

(***************************************************************************)
(* C10.  build() is idempotent: a build() right after a build() returns a  *)
(* response with the same body, headers and status, and a build() changes  *)
(* neither what a later build() nor what a later build_error() returns.    *)
(***************************************************************************)
C10_BuildIdempotent ==
    [][ (last_call' = "build" /\ calls' # calls) =>
            /\ build(builder') = build(builder)
            /\ build(builder') = returned'
            /\ \A status_code \in StatusCodes :
                  build_error(builder', status_code) = build_error(builder, status_code)
            /\ last_call = "build" => returned' = returned ]_vars

\* build() called twice in a row on a builder that holds metadata
C10_Witness ==
    /\ last_call = "build"
    /\ calls >= 3
    /\ returned # NoneRec
    /\ "metadata" \in DOMAIN returned.body
    /\ "metadata" \in DOMAIN builder._data

\* the builder call made last
LastCall == call_log[Len(call_log)]

\* the builder method was called at some point
WasCalled(method) == \E i \in DOMAIN call_log : call_log[i].method = method

(***************************************************************************)
(* C11.  Whatever calls were made on a builder (with_message and           *)
(* from_processing_result among them), the payload build_error returns     *)
(* has the timestamp the builder was created with and no response field.   *)
(***************************************************************************)
C11_ErrorPayloadTimestamp ==
    \A t \in Timestamps :
        (builder._data["timestamp"] = t /\ calls = 0) =>
            [](last_call = "build_error" =>
                  /\ "timestamp" \in DOMAIN returned.body
                  /\ returned.body["timestamp"] = t
                  /\ "response" \notin DOMAIN returned.body)

C11_Witness ==
    /\ last_call = "build_error"
    /\ WasCalled("with_message")
    /\ WasCalled("from_processing_result")
    /\ builder._data["response"] # <<>>
    /\ returned.body["timestamp"] = builder._data["timestamp"]

(***************************************************************************)
(* C12.  build_error(status_code) answers with exactly the status code of  *)
(* the caller, 500 when none is given; its body has no key other than      *)
(* error, error_code and timestamp, whatever was set on the builder; and   *)
(* error is "Unknown error" when with_error was never called.              *)
(***************************************************************************)
C12_MinimalErrorShape ==
    last_call = "build_error" =>
        /\ returned.status_code =
               IF Len(LastCall.args) = 0 THEN 500 ELSE LastCall.args[1]
        /\ DOMAIN returned.body \subseteq {"error", "error_code", "timestamp"}
        /\ ~WasCalled("with_error") => returned.body["error"] = "Unknown error"

C12_Witness ==
    /\ last_call = "build_error"
    /\ Len(LastCall.args) = 0
    /\ returned.status_code = 500
    /\ WasCalled("from_processing_result")
    /\ "tokens" \in DOMAIN builder._data
    /\ returned.body["error"] = "Unknown error"

\* a non-empty error code was given to with_error at some point
ErrorCodeSupplied ==
    \E i \in DOMAIN call_log :
        /\ call_log[i].method = "with_error"
        /\ call_log[i].args[2] \notin {None, ""}

(***************************************************************************)
(* C13.  The payload of build_error has the key error_code only when a     *)
(* non-empty error code was given through with_error, and not otherwise.   *)
(***************************************************************************)
C13_ErrorCodeOptional ==
    last_call = "build_error" =>
        ("error_code" \in DOMAIN returned.body <=> ErrorCodeSupplied)

(***************************************************************************)
(* C14.  build() answers with status 200 in every state of the builder,    *)
(* also after with_error: the payload then has the error field, and the    *)
(* status is 200 all the same.                                             *)
(***************************************************************************)
C14_BuildAlways200 ==
    last_call = "build" =>
        /\ returned.status_code = 200
        /\ WasCalled("with_error") => "error" \in DOMAIN returned.body

C14_Witness ==
    /\ last_call = "build"
    /\ WasCalled("with_error")
    /\ returned.body["error"] = "boom"
    /\ returned.status_code = 200

\* the three headers of every response
CacheHeaders ==
    ("Cache-Control" :> "no-store, no-cache, must-revalidate, max-age=0")
    @@ ("Pragma" :> "no-cache") @@ ("Expires" :> "0")

(***************************************************************************)
(* C15.  Every response of the builder, of build() or of build_error()     *)
(* and after any calls, has exactly the headers Cache-Control: no-store,   *)
(* no-cache, must-revalidate, max-age=0; Pragma: no-cache; Expires: 0,     *)
(* and no call changes the headers of the builder.                         *)
(***************************************************************************)
C15_FixedHeaders ==
    /\ DOMAIN builder._headers = DOMAIN CacheHeaders
    /\ \A k \in DOMAIN CacheHeaders : builder._headers[k] = CacheHeaders[k]
    /\ last_call \in {"build", "build_error"} =>
          /\ DOMAIN returned.headers = DOMAIN CacheHeaders
          /\ \A k \in DOMAIN CacheHeaders : returned.headers[k] = CacheHeaders[k]

C15_Witness ==
    /\ last_call = "build_error"
    /\ call_log[1].method = "with_metadata"
    /\ call_log[2].method = "with_error"
    /\ DOMAIN returned.headers = DOMAIN CacheHeaders

(***************************************************************************)
(* C16.  The factory gives every request, whatever its model, document     *)
(* ids and tools flag and whatever the environment, a strategy whose       *)
(* get_strategy_name() is "simple"; no other strategy is made, and every   *)
(* result of process has strategy_used = "simple".                         *)
(***************************************************************************)
C16_OnlySimpleStrategy ==
    \A r \in Slots :
        /\ strategy[r] # None =>
              /\ strategy[r] = "SimpleChatStrategy"
              /\ get_strategy_name(strategy[r]) = "simple"
        /\ pc[r] = "done" => outcome[r].strategy_used = "simple"

C16_Witness ==
    \E r \in Slots :
        /\ pc[r] = "done"
        /\ context[r].tools_enabled
        /\ context[r].model = "Saptiva Cortex"
        /\ context[r].document_ids # <<>>
        /\ env.MAX_DOCS_PER_CHAT # Unset
        /\ get_strategy_name(strategy[r]) = "simple"
        /\ outcome[r].strategy_used = "simple"

\* the user a history request is served for, and the session it names
HistoryUser == UserIdOf(h_request.endpoint, h_request.state_user_id)
SessionAsked == StoredSession(h_request.chat_id)

\* the session asked for exists and is the requester's own
MayRead == SessionAsked # NoneRec /\ SessionAsked.user_id = HistoryUser

\* the keys under which a handler hands out messages, events or session data
DataKeys ==
    {"messages", "events", "content", "chat_session", "message_count",
     "last_activity", "active_research", "total_count", "event_count"}

\* the calls a handler made beyond the session lookup
CallsBeyondLookup ==
    { i \in DOMAIN h_calls : h_calls[i].op # "ChatSessionModel.get" }

(***************************************************************************)
(* C17.  A handler that takes a chat_id hands out messages, events or      *)
(* session data of the chat only if the session exists and its user_id is  *)
(* the requester's, and it asks for the messages or the timeline only      *)
(* after the session lookup and with both checks passed.                   *)
(***************************************************************************)
C17_OnlyOwnerReads ==
    h_request.endpoint \in ChatEndpoints =>
        /\ CallsBeyondLookup # {} =>
              /\ MayRead
              /\ h_calls[1].op = "ChatSessionModel.get"
              /\ \A i \in CallsBeyondLookup : i > 1
        /\ (h_pc = "done" /\ DOMAIN h_response.body \cap DataKeys # {}) => MayRead

C17_Witness ==
    /\ h_pc = "done"
    /\ h_request.endpoint = "get_chat_detailed_history"
    /\ h_request.state_user_id = "u1"
    /\ h_response.status_code = 200
    /\ Len(h_response.body.messages) = 2
    /\ Len(h_calls) = 3

(***************************************************************************)
(* C18.  In every handler that takes a chat_id, the session lookup having  *)
(* answered, a missing session gives status 404 and a session of another   *)
(* user status 403; existence is checked first, so that an unknown chat_id *)
(* gives 404 whoever asks.                                                 *)
(***************************************************************************)
C18_NotFoundBeforeDenied ==
    (/\ h_pc = "done"
     /\ h_request.endpoint \in ChatEndpoints
     /\ h_error.at # "await_session") =>
        /\ SessionAsked = NoneRec => h_response.status_code = 404
        /\ (SessionAsked # NoneRec /\ SessionAsked.user_id # HistoryUser) =>
              h_response.status_code = 403

C18_Witness ==
    /\ h_pc = "done"
    /\ h_request.endpoint = "get_research_timeline"
    /\ h_request.chat_id = "c9"
    /\ h_request.state_user_id = None
    /\ h_response.status_code = 404
    /\ h_error = NoError

\* some value of the event_types parameter is no event type
HasInvalidValue(p) ==
    \E i \in DOMAIN p.pieces : Strip(p.pieces[i]) \notin HistoryEventTypes

(***************************************************************************)
(* C19.  get_unified_chat_history, for a session that exists and is the    *)
(* requester's: an event_types filter with a value that is no              *)
(* HistoryEventType gives status 400 without the timeline service being    *)
(* called, and a filter of valid values only never gives 400.              *)
(***************************************************************************)
C19_InvalidEventTypes ==
    (/\ h_pc = "done"
     /\ h_request.endpoint = "get_unified_chat_history"
     /\ MayRead
     /\ h_error.at # "await_session") =>
        IF ParamGiven(h_request.event_types) /\ HasInvalidValue(h_request.event_types)
        THEN /\ h_response.status_code = 400
             /\ CallsBeyondLookup = {}
        ELSE h_response.status_code # 400

C19_Witness ==
    /\ h_pc = "done"
    /\ h_request.endpoint = "get_unified_chat_history"
    /\ MayRead
    /\ Len(h_request.event_types.pieces) = 2
    /\ Strip(h_request.event_types.pieces[1]) = "chat_message"
    /\ h_response.status_code = 400
    /\ Len(h_calls) = 1

\* the keys under which an answer carries a text for the caller
TextKeys == {"detail", "error", "message"}

(***************************************************************************)
(* C20.  In every handler, an exception of the database or of the history  *)
(* service gives status 500 with texts that do not hold the text of the    *)
(* exception; and without such an exception no answer has status 500: the  *)
(* 404 and the 403 raised in the try block leave the handler as they were  *)
(* raised.                                                                 *)
(***************************************************************************)
C20_GenericServerError ==
    h_pc = "done" =>
        /\ h_error.at # None =>
              /\ h_response.status_code = 500
              /\ \A k \in DOMAIN h_response.body \cap TextKeys :
                    \A i \in DOMAIN h_response.body[k] :
                        h_response.body[k][i] # h_error.text
        /\ h_error.at = None =>
              /\ h_response.status_code # 500
              /\ (h_request.endpoint \in ChatEndpoints \ JsonEndpoints /\ ~MayRead) =>
                    /\ h_response.via = "HTTPException"
                    /\ h_response.status_code \in {403, 404}

C20_Witness ==
    /\ h_pc = "done"
    /\ h_request.endpoint = "export_chat_history"
    /\ h_error.at = "await_list"
    /\ h_error.text = "connection refused"
    /\ h_response.status_code = 500
    /\ h_response.body.detail = <<"Failed to export chat history">>

\* the messages of the sessions of a user, created at start_date or later
OwnMessages(user_id, start_date) ==
    SelectSeq(StoredMessages,
        LAMBDA msg : /\ StoredSession(msg.chat_id) # NoneRec
                     /\ StoredSession(msg.chat_id).user_id = user_id
                     /\ msg.created_at >= start_date)

\* the number of those with the role given
OwnMessagesOfRole(user_id, start_date, role) ==
    Len(SelectSeq(OwnMessages(user_id, start_date), LAMBDA msg : msg.role = role))

(***************************************************************************)
(* C21.  The statistics get_user_chat_stats returns are those of the       *)
(* requester alone: session_count counts the requester's sessions, and     *)
(* total_messages, user_messages and ai_messages count the messages of     *)
(* those sessions only, so that the messages of another user's chat do     *)
(* not show in them.                                                       *)
(***************************************************************************)
C21_StatsOfRequesterOnly ==
    (/\ h_pc = "done"
     /\ h_request.endpoint = "get_user_chat_stats"
     /\ h_error = NoError) =>
        LET start_date == Today - h_request.days
        IN /\ h_response.body.total_messages = Len(OwnMessages(HistoryUser, start_date))
           /\ h_response.body.user_messages =
                 OwnMessagesOfRole(HistoryUser, start_date, "user")
           /\ h_response.body.ai_messages =
                 OwnMessagesOfRole(HistoryUser, start_date, "assistant")

(***************************************************************************)
(* C22.  A GET of /history/stats is handled by get_user_chat_stats and     *)
(* answered with the statistics, the router dispatching a request to the   *)
(* first declared route whose pattern matches its path.                    *)
(***************************************************************************)
C22_StatsRouteReached ==
    (/\ h_pc = "done"
     /\ h_request.path = <<"history", "stats">>
     /\ h_error = NoError) =>
        /\ h_request.endpoint = "get_user_chat_stats"
        /\ "session_count" \in DOMAIN h_response.body

\* the text of the first choice of an inference result, empty where the
\* result has no first choice with a text
FirstChoiceText(coordinated_response) ==
    IF NoChoice(coordinated_response) THEN <<>>
    ELSE LET first == coordinated_response.response.choices[1]
         IN IF "message" \in DOMAIN first /\ "content" \in DOMAIN first.message
            THEN first.message.content
            ELSE <<>>

(***************************************************************************)
(* C23.  Within one request process takes its steps in a fixed order: the  *)
(* cache lookup, made when ids are given, has returned before the          *)
(* inference client is called; the inference client is called exactly      *)
(* once; the sanitizer is called exactly once, after the inference, on the *)
(* text of the first choice; the result's sanitized_content is what the    *)
(* sanitizer gave and its content the unsanitized text.                    *)
(***************************************************************************)
C23_FixedOrderOfSteps ==
    \A r \in Slots :
        /\ Len(cache_queries[r]) <= 1 /\ Len(inference_calls[r]) <= 1
        /\ Len(sanitizer_calls[r]) <= 1
        /\ pc[r] = "await_cache" => inference_calls[r] = <<>>
        /\ inference_calls[r] # <<>> =>
               Len(cache_queries[r]) = (IF context[r].document_ids # <<>> THEN 1 ELSE 0)
        /\ sanitizer_calls[r] # <<>> =>
               /\ inference_calls[r] # <<>>
               /\ inference_result[r] # NoneRec
               /\ sanitizer_calls[r] = <<FirstChoiceText(inference_result[r])>>
        /\ pc[r] = "done" =>
               /\ Len(inference_calls[r]) = 1
               /\ Len(sanitizer_calls[r]) = 1
               /\ outcome[r].content = FirstChoiceText(inference_result[r])
               /\ outcome[r].sanitized_content = Sanitize(sanitizer_calls[r][1])

\* a request naming documents is answered with a first choice whose text the
\* sanitizer changes
C23_Witness ==
    /\ pc[1] = "done"
    /\ cache_queries[1] # <<>>
    /\ ~NoChoice(inference_result[1])
    /\ outcome[1].content = Unsafe
    /\ outcome[1].sanitized_content # outcome[1].content

\* what the extraction step of call r returned, the first values of the
\* locals where the step was not taken
ExtractionOf(r) ==
    IF DocTextsOf(r) # <<>>
    THEN ExtractContentForRagFromCache(DocTextsOf(r), MAX_CHARS_PER_DOC,
                                       max_total_doc_chars(env), max_docs_per_chat(env))
    ELSE InitialLocals

\* the decision blob the inference client gave call r, empty when it gave none
InferenceDecisionOf(r) ==
    IF "decision" \in DOMAIN inference_result[r] /\ inference_result[r].decision # NoneRec
    THEN inference_result[r].decision
    ELSE EmptyDict

FirstResult == Results[call_log[1].args[1]]

\* the token usage of a result, empty when it has none
UsageOf(result) ==
    IF result.metadata.tokens_used = NoneRec THEN EmptyDict
    ELSE result.metadata.tokens_used

\* a count of a token usage, 0 when missing
CountOf(usage, key) == IF key \in DOMAIN usage THEN usage[key] ELSE 0

\* the result has the optional field
HasField(result, field) == field \in DOMAIN result /\ result[field] # None

(***************************************************************************)
(* C25.  from_processing_result adds the optional fields only when the     *)
(* result has them: the payload built has tokens iff the result has a      *)
(* token usage, decision iff its decision metadata is not empty, task_id   *)
(* and research_triggered iff it has a task id, session_title iff it has a *)
(* session title; the total of tokens is prompt + completion, a missing    *)
(* prompt or completion counting as 0.                                     *)
(***************************************************************************)
C25_OptionalFieldsOnlyWhenPresent ==
    (/\ Len(call_log) = 2
     /\ call_log[1].method = "from_processing_result"
     /\ call_log[2].method = "build") =>
        LET body == returned.body
            usage == UsageOf(FirstResult)
        IN /\ "tokens" \in DOMAIN body <=> usage # EmptyDict
           /\ "decision" \in DOMAIN body
                 <=> FirstResult.metadata.decision_metadata # EmptyDict
           /\ "task_id" \in DOMAIN body <=> HasField(FirstResult, "task_id")
           /\ "research_triggered" \in DOMAIN body <=> HasField(FirstResult, "task_id")
           /\ "session_title" \in DOMAIN body <=> HasField(FirstResult, "session_title")
           /\ "tokens" \in DOMAIN body =>
                 /\ body["tokens"].prompt = CountOf(usage, "prompt")
                 /\ body["tokens"].completion = CountOf(usage, "completion")
                 /\ body["tokens"].total
                       = CountOf(usage, "prompt") + CountOf(usage, "completion")

\* a payload built of a result whose token usage has no prompt and whose
\* decision metadata is empty
C25_Witness ==
    /\ Len(call_log) = 2
    /\ call_log[1].method = "from_processing_result"
    /\ call_log[2].method = "build"
    /\ "prompt" \notin DOMAIN UsageOf(FirstResult)
    /\ FirstResult.metadata.decision_metadata = EmptyDict
    /\ returned.body["tokens"].total = 4
    /\ "decision" \notin DOMAIN returned.body

\* the calls made so far that set the content of the response field
ContentCalls ==
    { i \in DOMAIN call_log :
          call_log[i].method \in {"with_message", "from_processing_result"} }

\* the call that set the content now in the response field
LastContentCall ==
    call_log[CHOOSE i \in ContentCalls : \A j \in ContentCalls : j <= i]

\* the call set its content as sanitized: with_message with sanitized=True,
\* which is what from_processing_result calls
SetAsSanitized(call) ==
    call.method = "from_processing_result" \/ call.args[2]

(***************************************************************************)
(* C26.  After any sequence of builder calls the payload built carries     *)
(* sanitized: true only if the content now in its response field was set   *)
(* by a with_message call with sanitized=True; a later with_message with   *)
(* sanitized=False gives a payload without the flag.                       *)
(***************************************************************************)
C26_SanitizedFlagOfCurrentContent ==
    (/\ call_log # <<>>
     /\ LastCall.method = "build"
     /\ "sanitized" \in DOMAIN returned.body) =>
        /\ ContentCalls # {}
        /\ SetAsSanitized(LastContentCall)

\* the timeline service has been asked for the timeline of the chat
TimelineAsked ==
    \E i \in DOMAIN h_calls : h_calls[i].op = "HistoryService.get_chat_timeline"

\* the event types of the filter handed to the timeline service
FilterTypes ==
    { h_locals.event_type_filter.types[i] : i \in DOMAIN h_locals.event_type_filter.types }

ResearchTypes ==
    {"research_started", "research_progress", "research_completed", "research_failed"}

SourceTypes == {"source_found", "evidence_discovered"}

(***************************************************************************)
(* C27.  The event-type filter get_unified_chat_history hands to the       *)
(* timeline service is the parsed event_types list when event_types is     *)
(* given, include_research and include_sources being ignored then;         *)
(* otherwise chat_message always, the four research types iff              *)
(* include_research, and source_found and evidence_discovered iff          *)
(* include_sources.  The filter is never empty.                            *)
(***************************************************************************)
C27_EventTypeFilter ==
    (h_request.endpoint = "get_unified_chat_history" /\ TimelineAsked) =>
        LET p == h_request.event_types
            filter == h_locals.event_type_filter
        IN /\ ~filter.is_none
           /\ filter.types # <<>>
           /\ IF ParamGiven(p)
              THEN /\ Len(filter.types) = Len(p.pieces)
                   /\ \A i \in DOMAIN p.pieces :
                         /\ filter.types[i] = p.pieces[i].core
                         /\ filter.types[i] \in HistoryEventTypes
              ELSE /\ "chat_message" \in FilterTypes
                   /\ FilterTypes \subseteq {"chat_message"} \cup ResearchTypes \cup SourceTypes
                   /\ IF h_request.include_research
                      THEN ResearchTypes \subseteq FilterTypes
                      ELSE ResearchTypes \cap FilterTypes = {}
                   /\ IF h_request.include_sources
                      THEN SourceTypes \subseteq FilterTypes
                      ELSE SourceTypes \cap FilterTypes = {}

\* the timeline asked for with the sources and without the research events
C27_Witness ==
    /\ h_request.endpoint = "get_unified_chat_history"
    /\ TimelineAsked
    /\ h_request.event_types.is_none
    /\ ~h_request.include_research
    /\ h_request.include_sources
    /\ FilterTypes = {"chat_message"} \cup SourceTypes

\* the timeline asked for with a filter given, the two flags set
C27_WitnessGiven ==
    /\ h_request.endpoint = "get_unified_chat_history"
    /\ TimelineAsked
    /\ h_request.include_research
    /\ h_request.include_sources
    /\ FilterTypes = {"research_started", "source_found"}

\* the answer is a page of sessions or of messages
PageReturned ==
    /\ h_pc = "done"
    /\ h_request.endpoint \in {"get_chat_history_overview", "get_chat_detailed_history"}
    /\ "has_more" \in DOMAIN h_response.body

\* the items of the page returned
PageItems ==
    IF h_request.endpoint = "get_chat_history_overview"
    THEN h_response.body.sessions
    ELSE h_response.body.messages

\* what the filtered query of the request counts in the stored collection
FilteredCount ==
    IF h_request.endpoint = "get_chat_history_overview"
    THEN Cardinality({ id \in HistoryChatIds :
             /\ StoredSession(id) # NoneRec
             /\ StoredSession(id).user_id = HistoryUser
             /\ h_request.date_from.is_none
                   \/ StoredSession(id).created_at >= h_request.date_from.value
             /\ h_request.search.is_none
                   \/ TitleMatches(StoredSession(id).title, h_request.search.value) })
    ELSE Cardinality({ i \in DOMAIN StoredMessages :
             /\ StoredMessages[i].chat_id = h_request.chat_id
             /\ h_request.include_system \/ StoredMessages[i].role # "system"
             /\ h_request.message_type = None
                   \/ StoredMessages[i].role = h_request.message_type })

(***************************************************************************)
(* C28.  get_chat_history_overview and get_chat_detailed_history, for      *)
(* every limit, offset and stored collection: the number of items returned *)
(* is at most limit, and has_more is true exactly when offset + the number *)
(* of items returned < the total count of the filtered query; has_more is  *)
(* false when offset >= that count.                                        *)
(***************************************************************************)
C28_PageAndHasMore ==
    PageReturned =>
        /\ Len(PageItems) <= h_request.limit
        /\ h_response.body.total_count = FilteredCount
        /\ h_response.body.has_more
              <=> h_request.offset + Len(PageItems) < FilteredCount
        /\ h_request.offset >= FilteredCount => ~h_response.body.has_more

\* a last page of sessions that ends where the collection ends
C28_Witness ==
    /\ PageReturned
    /\ h_request.endpoint = "get_chat_history_overview"
    /\ h_request.offset = 1
    /\ Len(PageItems) = 1
    /\ FilteredCount = 2
    /\ ~h_response.body.has_more

\* a page of messages with more to come, and a page past the end
C28_WitnessMessages ==
    /\ PageReturned
    /\ h_request.endpoint = "get_chat_detailed_history"
    /\ \/ h_response.body.has_more /\ Len(PageItems) = h_request.limit
       \/ h_request.offset > FilteredCount /\ FilteredCount > 0

====
